---------------------------- MODULE Spec2Model ----------------------------
(***************************************************************************)
(* Model of myhdl/_toVHDL/_convert.py: the toVHDL convertor               *)
(* (_ToVHDLConvertor.__call__), the declaration writers, the per-process   *)
(* code generation loop and the type descriptor algebra (maxType).         *)
(***************************************************************************)
EXTENDS Integers, Sequences, FiniteSets, TLC

VARIABLES
    _converting,    \* module global _converting (line 54)
    _enumTypeList,  \* module global _enumTypeList (line 56)
    declared,       \* enumType -> its declared flag (_isDeclared/_setDeclared/_clearDeclared)
    sigs,           \* Signal object -> [name, driven, read] (_name, _driven, _read)
    pc,             \* position of the top-level toVHDL call
    design,         \* func, args of the running top-level call and what the analysis finds in them
    vfile,          \* the output file object of the running call: "none", "open", "closed"
    out,            \* text written to vfile, as a sequence of tokens
    blockBuf,       \* _convertGens: blockBuf
    funcBuf,        \* _convertGens: funcBuf
    constwires,     \* _writeSigDecls: constwires
    idx,            \* index of the loop the call is in (ports, siglist, genlist)
    warns,          \* advisories issued by warnings.warn during the running call
    result,         \* how the latest toVHDL call ended
    nconv,          \* number of top-level conversions started
    nskip,          \* number of calls that found the guard set and took line 86
    prevDesign,     \* design of the latest conversion that returned normally
    prevOut,        \* its output text
    o1, o2,         \* maxType: the two operands
    mt,             \* maxType: the returned descriptor
    tpc,            \* maxType: "args" before the call, "done" after it
    lobj, robj,     \* type inference: vhdlObj of the two operand nodes of the visited node
    nobj,           \* type inference: vhdlObj of the visited node
    ast,            \* code generation: the process being converted, with the attributes of its nodes
    gpc,            \* code generation: position in visitFunction
    si,             \* code generation: index of the statement of the body visited next
    buf,            \* code generation: text written to self.buf, as a sequence of tokens
    isSigAss,       \* code generation: self.isSigAss
    ind,            \* code generation: self.ind, in units of four blanks
    senslist,       \* code generation: the local senslist of visitFunction
    depth,          \* code generation: calls of indent less calls of dedent so far (history)
    gerr            \* code generation: the exception visitFunction ended with

convVars == <<_converting, _enumTypeList, declared, sigs, pc, design, vfile, out,
              blockBuf, funcBuf, constwires, idx, warns, result, nconv, nskip>>
histVars == <<prevDesign, prevOut>>
annVars == <<lobj, robj, nobj>>
genVars == <<ast, gpc, si, buf, isSigAss, ind, senslist, depth, gerr>>
typeVars == <<o1, o2, mt, tpc, annVars, genVars>>
vars == <<convVars, histVars, typeVars>>
restVars == <<convVars, histVars, o1, o2, mt, tpc, annVars>>

---------------------------------------------------------------------------
(* Bounds *)
MaxConv   == 2     \* top-level conversions in one run
MaxNested == 1     \* nested toVHDL calls made by the design during hierarchy extraction
MaxRepeat == 3     \* top-level conversions in one run of SpecRepeat
MaxWidth  == 3     \* widths of the Signed/Unsigned descriptors given to maxType
MaxStmts  == 2     \* statements in a process body of SpecStmts
MaxRom    == 3     \* entries of a ROM table
MaxTests  == 2     \* tests of a conditional of SpecIf
MaxSens   == 2     \* entries of a sensitivity list of SpecProcess
MaxRange  == 3     \* largest argument of a range or downrange call of SpecFor

---------------------------------------------------------------------------
(* The design objects: three Signal objects and two enumerated types that  *)
(* live across conversions.                                                *)
Sigs      == {1, 2, 3}
EnumTypes == {1, 2}
None      == "None"

\* s._val / s._type / s._nrbits / s._min of the three signals
SigTable == <<
    [kind |-> "enum",  enum |-> 1, nrbits |-> 1, min |-> 0,  val |-> 0, hname |-> "s1"],
    [kind |-> "enum",  enum |-> 1, nrbits |-> 1, min |-> 0,  val |-> 1, hname |-> "s2"],
    [kind |-> "intbv", enum |-> 0, nrbits |-> 4, min |-> -8, val |-> 3, hname |-> "s3"] >>

EnumName(e) == IF e = 1 THEN "t_enum1" ELSE "t_enum2"

Tok(k, n, t, v) == [k |-> k, n |-> n, t |-> t, v |-> v]


---------------------------------------------------------------------------
(* The designs handed to toVHDL.  A design stands for func and its args    *)
(* together with what the analysis stage (myhdl._extractHierarchy,         *)
(* myhdl._toVerilog._analyze) reports about them.                          *)
Port(n, s) == [name |-> n, sig |-> s]

\* a process of genlist: the enumerated types of its local variables (0: a
\* variable that is not of an enumerated type), the callables its body calls
\* (each with the enumerated types of its parameters) and the error it holds
Gen(vs, cs, e) == [vars |-> vs, calls |-> cs, err |-> e]

\* h.hierarchy (the signals named by the analysis, in siglist order) and the
\* top-level interface intf.argnames / intf.argdict
Interfaces == {
    [hier |-> <<1, 2, 3>>, ports |-> <<>>],
    [hier |-> <<1, 2, 3>>, ports |-> <<Port("s1", 1)>>],
    [hier |-> <<1, 2, 3>>, ports |-> <<Port("s1", 1), Port("s2", 2)>>],
    [hier |-> <<1, 2, 3>>, ports |-> <<Port("s2", 1)>>],
    [hier |-> <<2, 3>>,    ports |-> <<Port("s1", 1)>>] }

\* which signals the processes drive and read
Usages == {
    [driven |-> {1, 2, 3}, read |-> {1, 2, 3}],
    [driven |-> {},        read |-> {1, 2, 3}],
    [driven |-> {1, 3},    read |-> {2}],
    [driven |-> {2},       read |-> {1, 3}] }

\* genlist and memlist
Bodies == {
    [gens |-> <<>>, mems |-> <<>>],
    [gens |-> <<Gen(<<1>>, <<>>, "none")>>, mems |-> <<[name |-> "m1", decl |-> TRUE]>>],
    [gens |-> <<Gen(<<0>>, <<<<2>>>>, "none"), Gen(<<2, 1>>, <<>>, "none")>>,
     mems |-> <<[name |-> "m1", decl |-> FALSE]>>],
    [gens |-> <<Gen(<<2>>, <<>>, "none"), Gen(<<>>, <<>>, "body")>>, mems |-> <<>>],
    [gens |-> <<Gen(<<1>>, <<>>, "early")>>, mems |-> <<>>] }

Design(i, u, b, e) ==
    [hier |-> i.hier, ports |-> i.ports, driven |-> u.driven, read |-> u.read,
     gens |-> b.gens, mems |-> b.mems, err |-> e]

NoDesign ==
    [hier |-> <<>>, ports |-> <<>>, driven |-> {}, read |-> {},
     gens |-> <<>>, mems |-> <<>>, err |-> "nodesign"]

\* designs that reach the writers, and designs that fail in an earlier stage
Designs ==
    { Design(i, u, b, "none") : i \in Interfaces, u \in Usages, b \in Bodies }
    \cup
    { Design(i, [driven |-> {1, 2, 3}, read |-> {1, 2, 3}],
             [gens |-> <<>>, mems |-> <<>>], e) :
        i \in Interfaces, e \in {"extract", "ArgType", "annotate"} }

siglist == design.hier
argnames == [i \in 1..Len(design.ports) |-> design.ports[i].name]
argdict(portname) ==
    (CHOOSE i \in 1..Len(design.ports) : design.ports[i].name = portname)
InArgnames(n) == \E i \in 1..Len(design.ports) : design.ports[i].name = n

---------------------------------------------------------------------------
(* State after import of the module *)
CleanSig == [name |-> None, driven |-> FALSE, read |-> FALSE]

ConvInit ==
    /\ _converting = 0
    /\ _enumTypeList = <<>>
    /\ declared = [e \in EnumTypes |-> FALSE]
    /\ sigs = [s \in Sigs |-> CleanSig]
    /\ pc = "idle"
    /\ design = NoDesign
    /\ vfile = "none"
    /\ out = <<>>
    /\ blockBuf = <<>>
    /\ funcBuf = <<>>
    /\ constwires = <<>>
    /\ idx = 0
    /\ warns = <<>>
    /\ result = "none"
    /\ nconv = 0
    /\ nskip = 0
    /\ prevDesign = NoDesign
    /\ prevOut = <<>>

\* an operand that is no vhdl_type instance (None)
NoType == [t |-> "None", size |-> 0]

TypeIdle ==
    /\ o1 = NoType
    /\ o2 = NoType
    /\ mt = NoType
    /\ tpc = "idle"
    /\ lobj = NoType
    /\ robj = NoType
    /\ nobj = NoType

\* a process: its kind, its sensitivity list, the number of its local
\* variables and the statements of its body after the yield
Process(kind, sl, nvars, nodes) ==
    [kind |-> kind, senslist |-> sl, vardict |-> nvars, nodes |-> nodes, argnames |-> 0]
\* a function or a procedure (task): its kind, the number of its parameters,
\* the number of its local variables and the statements of its body
Callable(kind, nargs, nvars, nodes) ==
    [kind |-> kind, senslist |-> <<>>, vardict |-> nvars, nodes |-> nodes, argnames |-> nargs]
NoProcess == Process("None", <<>>, 0, <<>>)

GenIdle ==
    /\ ast = NoProcess
    /\ gpc = "idle"
    /\ si = 0
    /\ buf = <<>>
    /\ isSigAss = FALSE
    /\ ind = 0
    /\ senslist = <<>>
    /\ depth = 0
    /\ gerr = "none"

Init == ConvInit /\ TypeIdle /\ GenIdle

---------------------------------------------------------------------------
(* _ToVHDLConvertor.__call__, lines 83-104 *)

\* raise: the exception leaves __call__; nothing is cleaned up on the way
Raise(what) ==
    /\ pc' = "raised"
    /\ result' = what

\* line 85 without the test: a nested request is converted like any other
IsConverting_mut == FALSE

\* line 85: if _converting
IsConverting == _converting # 0

\* lines 83-101: the entry of a call, up to the start of hierarchy extraction;
\* named: self.name is set or func has the attribute func_name
toVHDL_enter(d, tracing, isCallable, named) ==
    IF IsConverting
    THEN \* line 86: return func(*args, **kwargs)
         /\ result' = "func_result"
         /\ nskip' = nskip + 1
         /\ UNCHANGED <<_converting, _enumTypeList, declared, sigs, pc, design, vfile,
                        out, blockBuf, funcBuf, constwires, idx, warns, nconv>>
    ELSE IF tracing
    THEN /\ Raise("error:tracing")
         /\ UNCHANGED <<_converting, _enumTypeList, declared, sigs, design, vfile,
                        out, blockBuf, funcBuf, constwires, idx, warns, nconv, nskip>>
    ELSE IF ~isCallable
    THEN /\ Raise("error:FirstArgType")
         /\ UNCHANGED <<_converting, _enumTypeList, declared, sigs, design, vfile,
                        out, blockBuf, funcBuf, constwires, idx, warns, nconv, nskip>>
    ELSE IF ~named
    THEN \* line 97 has set the guard when func.func_name (line 99) raises,
         \* outside the try of lines 102-105
         /\ _converting' = 1
         /\ Raise("error:AttributeError")
         /\ UNCHANGED <<_enumTypeList, declared, sigs, design, vfile,
                        out, blockBuf, funcBuf, constwires, idx, warns, nconv, nskip>>
    ELSE /\ _converting' = 1
         /\ pc' = "extract"
         /\ design' = d
         /\ vfile' = "none"
         /\ out' = <<>>
         /\ blockBuf' = <<>>
         /\ funcBuf' = <<>>
         /\ constwires' = <<>>
         /\ idx' = 0
         /\ warns' = <<>>
         /\ result' = "none"
         /\ nconv' = nconv + 1
         /\ nskip' = 0
         /\ UNCHANGED <<_enumTypeList, declared, sigs>>

\* a top-level call: no toVHDL call is running
TopCall ==
    /\ pc \in {"idle", "returned", "raised"}
    /\ nconv < MaxConv
    /\ IsConverting => nskip < MaxNested
    /\ \E d \in Designs, tracing \in BOOLEAN, isCallable \in BOOLEAN, named \in BOOLEAN :
           toVHDL_enter(d, tracing, isCallable, named)
    /\ UNCHANGED <<histVars, typeVars>>

\* the design calls toVHDL itself while _HierExtr runs it (line 102)
NestedCall ==
    /\ pc = "extract"
    /\ nskip < MaxNested
    /\ \E d \in Designs : toVHDL_enter(d, FALSE, TRUE, TRUE)
    /\ UNCHANGED <<histVars, typeVars>>

\* lines 101-107: _HierExtr returns or raises, finally _converting = 0, and
\* the output file is opened
HierExtr ==
    /\ pc = "extract"
    /\ _converting' = 0
    /\ IF design.err = "extract"
       THEN /\ Raise("error:extract")
            /\ UNCHANGED vfile
       ELSE /\ vfile' = "open"
            /\ pc' = "analyzeSigs"
            /\ UNCHANGED result
    /\ UNCHANGED <<_enumTypeList, declared, sigs, design, out, blockBuf, funcBuf,
                   constwires, idx, warns, nconv, nskip>>
    /\ UNCHANGED <<histVars, typeVars>>

---------------------------------------------------------------------------
(* The analysis stage, lines 109-116 *)
Range(q) == { q[i] : i \in 1..Len(q) }

\* _analyzeSigs: every signal of the hierarchy gets its hierarchical name
analyzeSigs(sg) ==
    [s \in Sigs |-> IF s \in Range(design.hier)
                    THEN [sg[s] EXCEPT !.name = SigTable[s].hname]
                    ELSE sg[s]]

\* _analyzeGens: every signal of the hierarchy is marked driven and read as
\* the processes use it
analyzeGens(sg) ==
    [s \in Sigs |-> IF s \in Range(design.hier)
                    THEN [sg[s] EXCEPT !.driven = (s \in design.driven),
                                       !.read = (s \in design.read)]
                    ELSE sg[s]]

\* lines 109-112: _analyzeSigs, _flatten, _checkArgs
AnalyzeSigs ==
    /\ pc = "analyzeSigs"
    /\ sigs' = analyzeSigs(sigs)
    /\ IF design.err = "ArgType"
       THEN Raise("error:ArgType")
       ELSE pc' = "analyzeGens" /\ UNCHANGED result
    /\ UNCHANGED <<_converting, _enumTypeList, declared, design, vfile, out, blockBuf,
                   funcBuf, constwires, idx, warns, nconv, nskip>>
    /\ UNCHANGED <<histVars, typeVars>>

\* lines 113-116: _analyzeGens, _annotateTypes, _analyzeTopFunc
AnalyzeGens ==
    /\ pc = "analyzeGens"
    /\ sigs' = analyzeGens(sigs)
    /\ IF design.err = "annotate"
       THEN Raise("error:annotate")
       ELSE pc' = "header" /\ UNCHANGED result
    /\ UNCHANGED <<_converting, _enumTypeList, declared, design, vfile, out, blockBuf,
                   funcBuf, constwires, idx, warns, nconv, nskip>>
    /\ UNCHANGED <<histVars, typeVars>>

---------------------------------------------------------------------------
(* _writeModuleHeader, lines 142-170, and _writeFuncDecls, lines 183-184 *)

\* lines 238-247
_getRangeString(s) ==
    IF SigTable[s].kind = "enum" THEN -1
    ELSE IF SigTable[s].kind = "bool" THEN -1
    ELSE SigTable[s].nrbits - 1

\* lines 250-258
_getTypeString(s) ==
    IF SigTable[s].kind = "enum" THEN EnumName(SigTable[s].enum)
    ELSE IF SigTable[s].kind = "bool" THEN "std_logic"
    ELSE IF SigTable[s].min < 0 THEN "signed "
    ELSE "unsigned"

\* lines 162-165 with the two directions exchanged
PortDirection_mut(s) == IF sigs[s].driven THEN "in" ELSE "out"

\* lines 162-165: the direction written for the port bound to signal s
PortDirection(s) == IF sigs[s].driven THEN "out" ELSE "in"

\* lines 143-150: the preamble, the entity line and the opening of the port clause
WriteModuleHeaderBegin ==
    /\ pc = "header"
    /\ out' = out \o <<Tok("preamble", "", "", 0), Tok("entity", "", "", 0)>>
                  \o (IF Len(design.ports) > 0 THEN <<Tok("port (", "", "", 0)>> ELSE <<>>)
    /\ idx' = 1
    /\ pc' = IF Len(design.ports) > 0 THEN "ports" ELSE "headerEnd"
    /\ UNCHANGED <<_converting, _enumTypeList, declared, sigs, design, vfile, blockBuf,
                   funcBuf, constwires, warns, result, nconv, nskip>>
    /\ UNCHANGED <<histVars, typeVars>>

\* lines 152-165: one turn of the loop over intf.argnames
PortStep ==
    /\ pc = "ports"
    /\ idx <= Len(design.ports)
    /\ LET portname == argnames[idx]
           s == design.ports[argdict(portname)].sig
           sep == IF idx > 1 THEN <<Tok(";", "", "", 0)>> ELSE <<>>
       IN IF sigs[s].name = None
          THEN /\ out' = out \o sep
               /\ Raise("error:ShadowingSignal")
               /\ UNCHANGED <<sigs, idx>>
          ELSE /\ sigs' = [sigs EXCEPT ![s].name = portname]
               /\ out' = out \o sep \o
                         <<Tok("port", portname,
                               PortDirection(s) \o " " \o _getTypeString(s),
                               _getRangeString(s))>>
               /\ idx' = idx + 1
               /\ pc' = IF idx = Len(design.ports) THEN "headerEnd" ELSE "ports"
               /\ UNCHANGED result
    /\ UNCHANGED <<_converting, _enumTypeList, declared, design, vfile, blockBuf,
                   funcBuf, constwires, warns, nconv, nskip>>
    /\ UNCHANGED <<histVars, typeVars>>

\* lines 166-170 and 183-184: the end of the header and the helper subprograms
WriteModuleHeaderEnd ==
    /\ pc = "headerEnd"
    /\ out' = out \o (IF Len(design.ports) > 0 THEN <<Tok(");", "", "", 0)>> ELSE <<>>)
                  \o <<Tok("end entity", "", "", 0), Tok("architecture", "", "", 0),
                       Tok("funcdecls", "", "", 0)>>
    /\ idx' = 1
    /\ constwires' = <<>>
    /\ pc' = "sigdecls"
    /\ UNCHANGED <<_converting, _enumTypeList, declared, sigs, design, vfile, blockBuf,
                   funcBuf, warns, result, nconv, nskip>>
    /\ UNCHANGED <<histVars, typeVars>>

---------------------------------------------------------------------------
(* _writeSigDecls, lines 188-221, and _declareEnumType, lines 228-235 *)

\* the registry state threaded through the declaration sites: the declared
\* flags, _enumTypeList and the text written so far
Reg(d, l, b) == [declared |-> d, list |-> l, buf |-> b]

\* lines 228-235 with line 235 left out: the type is not registered
_declareEnumType_mut(r, e, n) ==
    IF r.declared[e]
    THEN r
    ELSE Reg([r.declared EXCEPT ![e] = TRUE],
             r.list,
             Append(r.buf, Tok("type", EnumName(e), n, 0)))

\* lines 228-235: declare the enumerated type of the signal named n, once
_declareEnumType(r, e, n) ==
    IF r.declared[e]
    THEN r
    ELSE Reg([r.declared EXCEPT ![e] = TRUE],
             Append(r.list, e),
             Append(r.buf, Tok("type", EnumName(e), n, 0)))

\* lines 195-213 with line 212 left out: the undriven signal is not kept for
\* its constant assignment
SigDecl_mut(s) ==
    IF sigs[s].driven
    THEN [text |-> <<Tok("signal", sigs[s].name, _getTypeString(s), _getRangeString(s))>>,
          warn |-> IF ~sigs[s].read
                   THEN <<Tok("UnusedSignal", sigs[s].name, "", 0)>> ELSE <<>>,
          wire |-> <<>>]
    ELSE IF sigs[s].read
    THEN [text |-> <<Tok("wire", sigs[s].name, "", _getRangeString(s))>>,
          warn |-> <<Tok("UndrivenSignal", sigs[s].name, "", 0)>>,
          wire |-> <<>>]
    ELSE [text |-> <<>>, warn |-> <<>>, wire |-> <<>>]

\* lines 195-213: what one signal that is not a port contributes: its
\* declaration, the advisory and its entry in constwires
SigDecl(s) ==
    IF sigs[s].driven
    THEN [text |-> <<Tok("signal", sigs[s].name, _getTypeString(s), _getRangeString(s))>>,
          warn |-> IF ~sigs[s].read
                   THEN <<Tok("UnusedSignal", sigs[s].name, "", 0)>> ELSE <<>>,
          wire |-> <<>>]
    ELSE IF sigs[s].read
    THEN [text |-> <<Tok("wire", sigs[s].name, "", _getRangeString(s))>>,
          warn |-> <<Tok("UndrivenSignal", sigs[s].name, "", 0)>>,
          wire |-> <<s>>]
    ELSE [text |-> <<>>, warn |-> <<>>, wire |-> <<>>]

\* lines 190-213: one turn of the loop over siglist
SigDeclStep ==
    /\ pc = "sigdecls"
    /\ idx <= Len(siglist)
    /\ LET s == siglist[idx]
       IN IF InArgnames(sigs[s].name)
          THEN \* lines 191-192: a port is not declared again
               UNCHANGED <<declared, _enumTypeList, out, warns, constwires>>
          ELSE LET r == IF SigTable[s].kind = "enum"
                        THEN _declareEnumType(Reg(declared, _enumTypeList, out),
                                              SigTable[s].enum, sigs[s].name)
                        ELSE Reg(declared, _enumTypeList, out)
                   d == SigDecl(s)
               IN /\ declared' = r.declared
                  /\ _enumTypeList' = r.list
                  /\ out' = r.buf \o d.text
                  /\ warns' = warns \o d.warn
                  /\ constwires' = constwires \o d.wire
    /\ idx' = idx + 1
    /\ UNCHANGED <<_converting, sigs, pc, design, vfile, blockBuf, funcBuf, result,
                   nconv, nskip>>
    /\ UNCHANGED <<histVars, typeVars>>

\* lines 214-218: the declarations of the memories
MemDecls(ms) ==
    [i \in 1..Len(ms) |-> IF ms[i].decl THEN Tok("reg", ms[i].name, "", 0)
                                        ELSE Tok("", "", "", 0)]

\* lines 219-220: the constant assignments of the undriven signals
ConstAssigns(cw) ==
    [i \in 1..Len(cw) |-> Tok("assign", sigs[cw[i]].name, "", SigTable[cw[i]].val)]

NonEmpty(q) == SelectSeq(q, LAMBDA t : t.k # "")

\* lines 214-221: the end of _writeSigDecls
SigDeclsEnd ==
    /\ pc = "sigdecls"
    /\ idx > Len(siglist)
    /\ out' = out \o NonEmpty(MemDecls(design.mems)) \o ConstAssigns(constwires)
                  \o <<Tok("blank", "", "", 0)>>
    /\ pc' = "gens"
    /\ idx' = 1
    /\ blockBuf' = <<>>
    /\ funcBuf' = <<>>
    /\ UNCHANGED <<_converting, _enumTypeList, declared, sigs, design, vfile,
                   constwires, warns, result, nconv, nskip>>
    /\ UNCHANGED <<histVars, typeVars>>

---------------------------------------------------------------------------
(* _convertGens, lines 261-284, with the declarations the visitors write *)

\* lines 310-326: the declaration of one variable or parameter; v is its
\* enumerated type, 0 when it is of another type
writeDeclaration(r, v, kind) ==
    IF v \in EnumTypes
    THEN LET r1 == IF ~r.declared[v]
                   THEN Reg([r.declared EXCEPT ![v] = TRUE],
                            Append(r.list, v),
                            Append(r.buf, Tok("type", EnumName(v), "XXX", 0)))
                   ELSE r
         IN Reg(r1.declared, r1.list, Append(r1.buf, Tok(kind, "", EnumName(v), 0)))
    ELSE Reg(r.declared, r.list, Append(r.buf, Tok(kind, "", "integer", 0)))

\* lines 365-373, 1272-1279, 1312-1323: the declarations of a list of
\* variables or parameters, in order
RECURSIVE writeDeclarations(_, _, _)
writeDeclarations(r, vs, kind) ==
    IF vs = <<>> THEN r
    ELSE writeDeclarations(writeDeclaration(r, Head(vs), kind), Tail(vs), kind)

\* lines 637-643 and 1281-1298: the callables called from a process body are
\* written to funcBuf
RECURSIVE visitCallFuncs(_, _)
visitCallFuncs(r, cs) ==
    IF cs = <<>> THEN r
    ELSE LET r1 == Reg(r.declared, r.list, Append(r.buf, Tok("function", "", "", 0)))
             r2 == writeDeclarations(r1, Head(cs), "in")
             r3 == Reg(r2.declared, r2.list, Append(r2.buf, Tok("end function", "", "", 0)))
         IN visitCallFuncs(r3, Tail(cs))

\* lines 264-279: one turn of the loop over genlist
ConvertGen ==
    /\ pc = "gens"
    /\ idx <= Len(design.gens)
    /\ LET g == design.gens[idx]
           \* the process header and its declarations go to blockBuf
           b0 == Reg(declared, _enumTypeList, Append(blockBuf, Tok("process", "", "", idx)))
           b1 == writeDeclarations(b0, g.vars, "variable")
           \* the body: the callables go to funcBuf
           f1 == visitCallFuncs(Reg(b1.declared, b1.list, funcBuf), g.calls)
       IN IF g.err = "early"
          THEN \* manageEdges raises before anything is written
               /\ Raise("error:gen")
               /\ UNCHANGED <<declared, _enumTypeList, blockBuf, funcBuf, idx>>
          ELSE IF g.err = "body"
          THEN \* a statement of the body raises, after the declarations
               /\ Raise("error:gen")
               /\ declared' = b1.declared
               /\ _enumTypeList' = b1.list
               /\ blockBuf' = b1.buf
               /\ UNCHANGED <<funcBuf, idx>>
          ELSE /\ declared' = f1.declared
               /\ _enumTypeList' = f1.list
               /\ blockBuf' = Append(b1.buf, Tok("end process", "", "", idx))
               /\ funcBuf' = f1.buf
               /\ idx' = idx + 1
               /\ UNCHANGED <<pc, result>>
    /\ UNCHANGED <<_converting, sigs, design, vfile, out, constwires, warns, nconv, nskip>>
    /\ UNCHANGED <<histVars, typeVars>>

\* lines 281-284 with begin written before the callables
GensText_mut(fb, bb) ==
    <<Tok("begin", "", "", 0), Tok("blank", "", "", 0)>> \o fb \o bb

\* lines 281-284: the text of the callables, begin, and the text of the processes
GensText(fb, bb) ==
    fb \o <<Tok("begin", "", "", 0), Tok("blank", "", "", 0)>> \o bb

\* lines 281-284: the callables, begin, and the processes
ConvertGensEnd ==
    /\ pc = "gens"
    /\ idx > Len(design.gens)
    /\ out' = out \o GensText(funcBuf, blockBuf)
    /\ pc' = "footer"
    /\ UNCHANGED <<_converting, _enumTypeList, declared, sigs, design, vfile, blockBuf,
                   funcBuf, constwires, idx, warns, result, nconv, nskip>>
    /\ UNCHANGED <<histVars, typeVars>>

---------------------------------------------------------------------------
(* The end of __call__, lines 122-136 *)

\* lines 128-131 with line 130 left out
CleanSignal_mut(sg) == [sg EXCEPT !.name = None, !.read = FALSE]

\* lines 128-131
CleanSignal(sg) == [sg EXCEPT !.name = None, !.driven = FALSE, !.read = FALSE]

\* lines 133-134
ClearDeclared(d, l) == [e \in EnumTypes |-> IF e \in Range(l) THEN FALSE ELSE d[e]]

\* lines 122-136: footer, close, clean-up, return h.top
FinishBody ==
    /\ pc = "footer"
    /\ out' = Append(out, Tok("end architecture", "", "", 0))
    /\ vfile' = "closed"
    /\ sigs' = [s \in Sigs |-> IF s \in Range(siglist) THEN CleanSignal(sigs[s])
                               ELSE sigs[s]]
    /\ declared' = ClearDeclared(declared, _enumTypeList)
    /\ result' = "h.top"
    /\ pc' = "returned"
    /\ UNCHANGED <<_converting, _enumTypeList, design, blockBuf, funcBuf, constwires,
                   idx, warns, nconv, nskip>>

Finish ==
    /\ FinishBody
    /\ UNCHANGED <<histVars, typeVars>>

Next ==
    \/ TopCall
    \/ NestedCall
    \/ HierExtr
    \/ AnalyzeSigs
    \/ AnalyzeGens
    \/ WriteModuleHeaderBegin
    \/ PortStep
    \/ WriteModuleHeaderEnd
    \/ SigDeclStep
    \/ SigDeclsEnd
    \/ ConvertGen
    \/ ConvertGensEnd
    \/ Finish

Spec == Init /\ [][Next]_vars

---------------------------------------------------------------------------
(* Repeated conversion: the same design is converted again after a         *)
(* conversion has returned; the output of the latest returned conversion   *)
(* is remembered.                                                          *)
TopCallRepeat ==
    /\ pc \in {"idle", "returned", "raised"}
    /\ nconv < MaxRepeat
    /\ IsConverting => nskip < MaxNested
    /\ \E d \in Designs, tracing \in BOOLEAN, isCallable \in BOOLEAN, named \in BOOLEAN :
           /\ prevDesign # NoDesign => d = prevDesign
           /\ toVHDL_enter(d, tracing, isCallable, named)
    /\ UNCHANGED <<histVars, typeVars>>

FinishRecord ==
    /\ FinishBody
    /\ prevDesign' = design
    /\ prevOut' = out'
    /\ UNCHANGED typeVars

NextRepeat ==
    \/ TopCallRepeat
    \/ NestedCall
    \/ HierExtr
    \/ AnalyzeSigs
    \/ AnalyzeGens
    \/ WriteModuleHeaderBegin
    \/ PortStep
    \/ WriteModuleHeaderEnd
    \/ SigDeclStep
    \/ SigDeclsEnd
    \/ ConvertGen
    \/ ConvertGensEnd
    \/ FinishRecord

SpecRepeat == Init /\ [][NextRepeat]_vars

---------------------------------------------------------------------------
(* The type descriptors, lines 1350-1382, and maxType, lines 1387-1403 *)
vhdl_std_logic == [t |-> "std_logic", size |-> 1]
vhdl_boolean == [t |-> "boolean", size |-> 1]
vhdl_int == [t |-> "int", size |-> 0]
vhdl_unsigned(n) == [t |-> "unsigned", size |-> n]
vhdl_signed(n) == [t |-> "signed", size |-> n]

Max(a, b) == IF a >= b THEN a ELSE b

\* lines 1387-1403 with the size of the first operand taken for the maximum
maxType_mut(a, b) ==
    LET s1 == IF a.t # "None" THEN a.size ELSE 0
        s == s1
    IN IF a.t = "signed" \/ b.t = "signed" THEN vhdl_signed(s)
       ELSE IF a.t = "unsigned" \/ b.t = "unsigned" THEN vhdl_unsigned(s)
       ELSE IF a.t = "std_logic" \/ b.t = "std_logic" THEN vhdl_std_logic
       ELSE IF a.t = "int" \/ b.t = "int" THEN vhdl_int
       ELSE NoType

\* lines 1387-1403
maxType(a, b) ==
    LET s1 == IF a.t # "None" THEN a.size ELSE 0
        s2 == IF b.t # "None" THEN b.size ELSE 0
        s == Max(s1, s2)
    IN IF a.t = "signed" \/ b.t = "signed" THEN vhdl_signed(s)
       ELSE IF a.t = "unsigned" \/ b.t = "unsigned" THEN vhdl_unsigned(s)
       ELSE IF a.t = "std_logic" \/ b.t = "std_logic" THEN vhdl_std_logic
       ELSE IF a.t = "int" \/ b.t = "int" THEN vhdl_int
       ELSE NoType

\* the operands maxType is called with
Descriptors ==
    {vhdl_std_logic, vhdl_boolean, vhdl_int, NoType}
    \cup { vhdl_unsigned(n) : n \in 1..MaxWidth }
    \cup { vhdl_signed(n) : n \in 1..MaxWidth }

InitMaxType ==
    /\ ConvInit
    /\ o1 \in Descriptors
    /\ o2 \in Descriptors
    /\ mt = NoType
    /\ tpc = "args"
    /\ lobj = NoType
    /\ robj = NoType
    /\ nobj = NoType
    /\ GenIdle

CallMaxType ==
    /\ tpc = "args"
    /\ mt' = maxType(o1, o2)
    /\ tpc' = "done"
    /\ UNCHANGED <<o1, o2, annVars, genVars, convVars, histVars>>

NextMaxType == CallMaxType

SpecMaxType == InitMaxType /\ [][NextMaxType]_vars

---------------------------------------------------------------------------
(* Type inference, _AnnotateTypesVisitor: the visitor methods of a node   *)
(* with two operands. Each returns the descriptors of the left operand,   *)
(* the right operand and the node once the method has returned, from the  *)
(* descriptors l and r the operands have after visitChildNodes.           *)
Annotated(l, r, n) == [left |-> l, right |-> r, node |-> n]

\* lines 1453-1459 with the operands left as the children were inferred
Annotate_visitCompare_mut(l, r) ==
    Annotated(l, r, vhdl_boolean)

\* lines 1453-1459 with the result assigned to the left operand only
Annotate_visitCompare_left(l, r) ==
    LET o == maxType(l, r)
    IN Annotated(o, r, vhdl_boolean)

\* lines 1453-1459
Annotate_visitCompare(l, r) ==
    LET o == maxType(l, r)
    IN Annotated(o, o, vhdl_boolean)

\* lines 1498-1506, node.nodes = [left, right]
Annotate_multiBitOp(l, r) ==
    LET o == maxType(maxType(NoType, l), r)
    IN Annotated(o, o, o)

\* lines 1482-1496 with the size of the left operand taken for the maximum
Annotate_binaryOp_mut(l, r) ==
    LET n == IF l.t = "int" /\ r.t = "int" THEN vhdl_int
             ELSE IF l.t \in {"signed", "int"} /\ r.t \in {"signed", "int"}
                  THEN vhdl_signed(l.size)
             ELSE IF l.t \in {"unsigned", "int"} /\ r.t \in {"unsigned", "int"}
                  THEN vhdl_unsigned(l.size)
             ELSE vhdl_int
    IN Annotated(l, r, n)

\* lines 1482-1496: visitAdd, visitSub, visitMod
Annotate_binaryOp(l, r) ==
    LET n == IF l.t = "int" /\ r.t = "int" THEN vhdl_int
             ELSE IF l.t \in {"signed", "int"} /\ r.t \in {"signed", "int"}
                  THEN vhdl_signed(Max(l.size, r.size))
             ELSE IF l.t \in {"unsigned", "int"} /\ r.t \in {"unsigned", "int"}
                  THEN vhdl_unsigned(Max(l.size, r.size))
             ELSE vhdl_int
    IN Annotated(l, r, n)

\* the children of the node have been visited: o1 and o2 are their descriptors
InitAnnotate ==
    /\ ConvInit
    /\ o1 \in Descriptors
    /\ o2 \in Descriptors
    /\ mt = NoType
    /\ tpc = "children"
    /\ lobj = o1
    /\ robj = o2
    /\ nobj = NoType
    /\ GenIdle

Annotate(method, a) ==
    /\ tpc = "children"
    /\ lobj' = a.left
    /\ robj' = a.right
    /\ nobj' = a.node
    /\ tpc' = method
    /\ UNCHANGED <<o1, o2, mt, genVars, convVars, histVars>>

VisitCompare == Annotate("visitCompare", Annotate_visitCompare(lobj, robj))
MultiBitOp == Annotate("multiBitOp", Annotate_multiBitOp(lobj, robj))
BinaryOp == Annotate("binaryOp", Annotate_binaryOp(lobj, robj))

NextAnnotate ==
    \/ VisitCompare
    \/ MultiBitOp
    \/ BinaryOp

SpecAnnotate == InitAnnotate /\ [][NextAnnotate]_vars

---------------------------------------------------------------------------
(* Code generation, _ConvertVisitor. The visitor state is the record      *)
(* [buf, isSigAss, ind, depth, kind], kind standing for the class of the  *)
(* visitor; a visit method takes a node and the visitor and returns the   *)
(* visitor after the call and the node with the attributes the method has *)
(* assigned.                                                               *)
Visited(v, node) == [v |-> v, node |-> node]

\* The code runs one visit after the other. TLC evaluates a definition when
\* its value is first needed, the last visit first; After(r, e) has
\* it evaluate the visit r before the visits of e.
After(r, e) == IF r.v.ind >= 0 THEN e ELSE r

\* write, lines 296-297
W(v, toks) == [v EXCEPT !.buf = @ \o toks]
\* writeline, lines 299-301
writeline(v) == W(v, <<[k |-> "nl", ind |-> v.ind]>>)
\* indent and dedent, lines 375-379
indent(v) == [v EXCEPT !.ind = @ + 1, !.depth = @ + 1]
\* lines 378-379 with self.ind left as it is
dedent_mut(v) == [v EXCEPT !.depth = @ - 1]
\* self.ind[:-4] of the empty string is the empty string
dedent(v) == [v EXCEPT !.ind = IF @ > 0 THEN @ - 1 ELSE 0, !.depth = @ - 1]

\* expression nodes: a Name, a Getattr of a signal's next and an Add of two Names
Name(d) == [e |-> "Name", vhdlObj |-> d]
GetattrNext(d) == [e |-> "Getattr", attrname |-> "next", vhdlObj |-> d]
Add(l, r) == [e |-> "Add", vhdlObj |-> Annotate_binaryOp(l, r).node,
              left |-> Name(l), right |-> Name(r)]
\* assignment targets
AssAttr(d) == [e |-> "AssAttr", attrname |-> "next", vhdlObj |-> d]
AssName(d) == [e |-> "AssName", vhdlObj |-> d]
\* statements
Assign(lhs, rhs) == [s |-> "Assign", nodes |-> <<lhs>>, expr |-> rhs, rom |-> <<>>]
RomAssign(lhs, index, rom) == [s |-> "Assign", nodes |-> <<lhs>>, expr |-> index, rom |-> rom]
AugAssign(node, expr) == [s |-> "AugAssign", node |-> node, expr |-> expr]

\* the text of a leaf of an expression is written from its descriptor
\* (visitName, lines 845-915, visitConst, lines 660-673)
Leaf(x) == [k |-> "leaf", e |-> x.e, vhdlObj |-> x.vhdlObj]

\* visitName, visitGetattr (lines 751-758) and binaryOp (lines 381-392) with
\* the operands of a node left as the type inference set them
visitExpr_mut(x, v) ==
    CASE x.e = "Name" -> Visited(W(v, <<Leaf(x)>>), x)
      [] x.e = "Getattr" -> Visited(W([v EXCEPT !.isSigAss = TRUE], <<Leaf(x)>>), x)
      [] x.e = "Add" ->
            Visited(W(v, <<[k |-> "("], Leaf(x.left), [k |-> "op", op |-> "+"],
                           Leaf(x.right), [k |-> ")"]>>), x)

\* visitName, visitGetattr (lines 751-758) and binaryOp (lines 381-392)
visitExpr(x, v) ==
    CASE x.e = "Name" -> Visited(W(v, <<Leaf(x)>>), x)
      [] x.e = "Getattr" -> Visited(W([v EXCEPT !.isSigAss = TRUE], <<Leaf(x)>>), x)
      [] x.e = "Add" ->
            LET isInt == x.vhdlObj.t = "int"
                left == IF isInt THEN [x.left EXCEPT !.vhdlObj = vhdl_int] ELSE x.left
                right == IF isInt THEN [x.right EXCEPT !.vhdlObj = vhdl_int] ELSE x.right
            IN Visited(W(v, <<[k |-> "("], Leaf(left), [k |-> "op", op |-> "+"],
                              Leaf(right), [k |-> ")"]>>),
                       [x EXCEPT !.left = left, !.right = right])

\* visitAssAttr (lines 482-486) and visitAssName (lines 556-557)
visitTarget(lhs, v) ==
    IF lhs.e = "AssAttr"
    THEN IF v.kind = "SIMPLE_ALWAYS_COMB"
         \* lines 1180-1182: the visitAssAttr of _ConvertSimpleAlwaysCombVisitor
         THEN W(v, <<[k |-> "assign"], [k |-> "target", e |-> lhs.e]>>)
         ELSE W([v EXCEPT !.isSigAss = TRUE], <<[k |-> "target", e |-> lhs.e]>>)
    ELSE W(v, <<[k |-> "target", e |-> lhs.e]>>)

\* lines 514-518 and 545-549: the assignment operator
writeAssOp(v) ==
    IF v.isSigAss
    THEN [W(v, <<[k |-> "<="]>>) EXCEPT !.isSigAss = FALSE]
    ELSE W(v, <<[k |-> ":="]>>)

\* lines 519-524: the literal of a ROM entry
RomLiteral(lhs, n) ==
    IF lhs.vhdlObj.t = "std_logic" THEN [k |-> "literal", form |-> "char", n |-> n, size |-> 1]
    ELSE IF lhs.vhdlObj.t = "int" THEN [k |-> "literal", form |-> "decimal", n |-> n, size |-> 0]
    ELSE [k |-> "literal", form |-> "bin", n |-> n, size |-> lhs.vhdlObj.size]

\* lines 507-524: the alternatives i..len(rom) of the case statement
RECURSIVE RomAlternatives(_, _, _, _)
RomAlternatives(lhs, rom, i, v) ==
    IF i > Len(rom) THEN v
    ELSE LET v1 == writeline(v)
             v2 == IF i = Len(rom) THEN W(v1, <<[k |-> "when others"]>>)
                   ELSE W(v1, <<[k |-> "when", choice |-> i - 1]>>)
             v3 == writeAssOp(visitTarget(lhs, v2))
             r == Visited(W(v3, <<RomLiteral(lhs, rom[i])>>), lhs)
         IN After(r, RomAlternatives(lhs, rom, i + 1, r.v))

\* lines 526-543: the conversion of the right hand side and its descriptor
\* at emission, with the width of the right hand side for the size argument
Conversion_mut(lhs, rhs) ==
    LET l == lhs.vhdlObj
        r == rhs.vhdlObj
    IN IF l.t \in {"unsigned", "signed"}
       THEN IF r.t = l.t /\ r.size = l.size
            THEN [open |-> "", size |-> 0, vhdlObj |-> r]
            ELSE [open |-> IF l.t = "unsigned" THEN "to_unsigned(" ELSE "to_signed(",
                  size |-> r.size, vhdlObj |-> vhdl_int]
       ELSE IF l.t = "std_logic" THEN [open |-> "", size |-> 0, vhdlObj |-> vhdl_std_logic]
       ELSE [open |-> "", size |-> 0, vhdlObj |-> r]

\* lines 526-543: the conversion of the right hand side and its descriptor at emission
Conversion(lhs, rhs) ==
    LET l == lhs.vhdlObj
        r == rhs.vhdlObj
    IN IF l.t \in {"unsigned", "signed"}
       THEN IF r.t = l.t /\ r.size = l.size
            THEN [open |-> "", size |-> 0, vhdlObj |-> r]
            ELSE [open |-> IF l.t = "unsigned" THEN "to_unsigned(" ELSE "to_signed(",
                  size |-> l.size, vhdlObj |-> vhdl_int]
       ELSE IF l.t = "std_logic" THEN [open |-> "", size |-> 0, vhdlObj |-> vhdl_std_logic]
       ELSE [open |-> "", size |-> 0, vhdlObj |-> r]

\* lines 491-554
visitAssign(node, v) ==
    LET lhs == node.nodes[1]
    IN IF node.rom # <<>>
       THEN LET sub == visitExpr(node.expr, W(v, <<[k |-> "case"]>>))
                v1 == indent(W(sub.v, <<[k |-> "is"]>>))
                v2 == RomAlternatives(lhs, node.rom, 1, v1)
            IN Visited(W(writeline(dedent(v2)), <<[k |-> "end case;"]>>),
                       [node EXCEPT !.expr = sub.node])
       ELSE LET conv == Conversion(lhs, node.expr)
                rhs == [node.expr EXCEPT !.vhdlObj = conv.vhdlObj]
                v1 == writeAssOp(visitTarget(lhs, v))
                v2 == IF conv.open = "" THEN v1 ELSE W(v1, <<[k |-> conv.open]>>)
                r == visitExpr(rhs, v2)
                v3 == IF conv.open = "" THEN r.v
                      ELSE W(r.v, <<[k |-> ", size)", size |-> conv.size]>>)
            IN Visited(W(v3, <<[k |-> ";"]>>), [node EXCEPT !.expr = r.node])

\* lines 559-582
visitAugAssign(node, v) ==
    LET a == visitExpr(node.node, v)
        b == visitExpr(a.node, W(a.v, <<[k |-> ":="]>>))
        c == visitExpr(node.expr, W(b.v, <<[k |-> "op", op |-> "+"]>>))
    IN Visited(W(c.v, <<[k |-> ";"]>>), [node EXCEPT !.node = b.node, !.expr = c.node])

\* sensitivity list entries: the edge-waiters of a signal (_WaiterList), a
\* plain Signal and a delay; NoEdge is the None that getEdge returns
posedge(s) == [w |-> "posedge", sig |-> s]
negedge(s) == [w |-> "negedge", sig |-> s]
PlainSignal(s) == [w |-> "Signal", sig |-> s]
Delay == [w |-> "delay", sig |-> 0]
NoEdge == [w |-> "None", sig |-> 0]
\* the base type manageEdges classifies an entry by, lines 1045-1050
BaseType(x) == IF x.w \in {"posedge", "negedge"} THEN "_WaiterList" ELSE x.w

\* a test of a conditional: a comparison with the value item, carrying the
\* edge the analysis found in it (NoEdge when it found none)
Compare(item, edge) == [e |-> "Compare", item |-> item, edge |-> edge]
\* the else branch of a conditional: absent (None) or a Stmt node, whose edge
\* attribute is unset until manageEdges assigns it
NoElse == [present |-> FALSE, nodes |-> <<>>, edge |-> [set |-> FALSE, edges |-> <<>>]]
Else(nodes) == [present |-> TRUE, nodes |-> nodes, edge |-> [set |-> FALSE, edges |-> <<>>]]
\* an If node with the attributes of the analysis
If(tests, else_, isCase, ignore) ==
    [s |-> "If", tests |-> tests, else_ |-> else_, isCase |-> isCase,
     ignore |-> ignore, caseVar |-> Name(NoType)]

\* a For node over the call f(args), f one of range and downrange, the
\* arguments being integer values; a While node
For(f, args, body) == [s |-> "For", f |-> f, args |-> args, body |-> body]
While(test, body) == [s |-> "While", test |-> test, body |-> body]

\* _ToVerilogMixin.getEdge: the edge attribute of a node, None when it has none
getEdge(node) == node.edge

RECURSIVE visit(_, _)
RECURSIVE visitStmt(_, _, _)
RECURSIVE CaseAlternatives(_, _, _)
RECURSIVE IfBranches(_, _, _)

\* lines 986-992: the statements i.. of a Stmt node
visitStmt(nodes, i, v) ==
    IF i > Len(nodes) THEN Visited(v, nodes)
    ELSE LET r == visit(nodes[i], writeline(v))
         IN After(r, visitStmt([nodes EXCEPT ![i] = r.node], i + 1, r.v))

\* lines 788-796: the alternatives of tests i..
CaseAlternatives(node, i, v) ==
    IF i > Len(node.tests) THEN Visited(v, node)
    ELSE LET v1 == W(writeline(v), <<[k |-> "when", choice |-> node.tests[i].test.item]>>)
             r == visitStmt(node.tests[i].suite, 1, indent(v1))
         IN After(r, CaseAlternatives([node EXCEPT !.tests[i].suite = r.node], i + 1,
                                      dedent(r.v)))

\* lines 782-805
mapToCase(node, v) ==
    LET var == visitExpr(node.caseVar, W(v, <<[k |-> "case"]>>))
        alts == CaseAlternatives(node, 1, indent(W(var.v, <<[k |-> "is"]>>)))
        v1 == W(writeline(alts.v), <<[k |-> "when others"]>>)
        els == IF node.else_.present
               THEN visitStmt(node.else_.nodes, 1, indent(v1))
               ELSE Visited(alts.v, node.else_.nodes)
        v2 == IF node.else_.present THEN dedent(els.v) ELSE els.v
    IN After(alts, Visited(W(writeline(dedent(v2)), <<[k |-> "end case;"]>>),
                           [alts.node EXCEPT !.else_.nodes = els.node]))

\* lines 808-821: the branches of tests i..
IfBranches(node, i, v) ==
    IF i > Len(node.tests) THEN Visited(v, node)
    ELSE LET v1 == IF i = 1
                   THEN W(v, <<[k |-> "if", cond |-> <<node.tests[i].test>>]>>)
                   ELSE W(writeline(v), <<[k |-> "elsif", cond |-> <<node.tests[i].test>>]>>)
             r == visitStmt(node.tests[i].suite, 1, indent(v1))
         IN After(r, IfBranches([node EXCEPT !.tests[i].suite = r.node], i + 1,
                                dedent(r.v)))

\* lines 822-831 with a plain else written whatever edges the branch carries
ElseKeyword_mut(else_) ==
    [k |-> "else"]

\* lines 822-831: the keyword of the else branch
ElseKeyword(else_) ==
    LET edges == getEdge(else_)
    IN IF edges.set
       THEN [k |-> "elsif", cond |-> edges.edges]
       ELSE [k |-> "else"]

\* lines 807-836
mapToIf(node, v) ==
    LET brs == IfBranches(node, 1, v)
        v1 == W(writeline(brs.v), <<ElseKeyword(node.else_)>>)
        els == IF node.else_.present
               THEN visitStmt(node.else_.nodes, 1, indent(v1))
               ELSE Visited(brs.v, node.else_.nodes)
        v2 == IF node.else_.present THEN dedent(els.v) ELSE els.v
    IN After(brs, Visited(W(writeline(v2), <<[k |-> "end if;"]>>),
                          [brs.node EXCEPT !.else_.nodes = els.node]))

\* a bound of the loop as written: the argument visited, or "0" for an
\* argument left out, followed by "-1" where oneoff is set
Written(given, val, oneoff) == [given |-> given, val |-> val, oneoff |-> oneoff]

\* lines 694-736 with the stop of a range written as it is
ForHeader_mut(node) ==
    LET args == node.args
        n == Len(args)
    IN IF node.f = "range"
       THEN [k |-> "for", op |-> "to",
             left |-> IF n = 1 THEN Written(FALSE, 0, FALSE) ELSE Written(TRUE, args[1], FALSE),
             right |-> Written(TRUE, args[n], FALSE)]
       ELSE [k |-> "for", op |-> "downto",
             left |-> Written(TRUE, args[1], TRUE),
             right |-> IF n = 1 THEN Written(FALSE, 0, FALSE) ELSE Written(TRUE, args[2], FALSE)]

\* lines 694-736: start, stop from the arguments and the header
\* 'for <var> in <start> to|downto <stop> loop'
ForHeader(node) ==
    LET args == node.args
        n == Len(args)
    IN IF node.f = "range"
       THEN [k |-> "for", op |-> "to",
             left |-> IF n = 1 THEN Written(FALSE, 0, FALSE) ELSE Written(TRUE, args[1], FALSE),
             right |-> Written(TRUE, args[n], TRUE)]
       ELSE [k |-> "for", op |-> "downto",
             left |-> Written(TRUE, args[1], TRUE),
             right |-> IF n = 1 THEN Written(FALSE, 0, FALSE) ELSE Written(TRUE, args[2], FALSE)]

\* lines 686-746
visitFor(node, v) ==
    LET body == visitStmt(node.body, 1, indent(W(v, <<ForHeader(node)>>)))
    IN After(body, Visited(W(writeline(dedent(body.v)), <<[k |-> "end loop;"]>>),
                           [node EXCEPT !.body = body.node]))

\* lines 1015-1028
visitWhile(node, v) ==
    LET body == visitStmt(node.body, 1, indent(W(v, <<[k |-> "while", cond |-> <<node.test>>]>>)))
    IN After(body, Visited(W(writeline(dedent(body.v)), <<[k |-> "end loop;"]>>),
                           [node EXCEPT !.body = body.node]))

\* lines 774-780 with every conditional mapped to an if chain
visitIf_mut(node, v) ==
    IF node.ignore THEN Visited(v, node)
    ELSE mapToIf(node, v)

\* lines 774-780
visitIf(node, v) ==
    IF node.ignore THEN Visited(v, node)
    ELSE IF node.isCase THEN mapToCase(node, v)
    ELSE mapToIf(node, v)

\* the dispatch of compiler.walk on the class of the statement
visit(node, v) ==
    CASE node.s = "Assign" -> visitAssign(node, v)
      [] node.s = "AugAssign" -> visitAugAssign(node, v)
      [] node.s = "If" -> visitIf(node, v)
      [] node.s = "For" -> visitFor(node, v)
      [] node.s = "While" -> visitWhile(node, v)

\* lines 1042-1075: the error raised, the sensitivity list returned and the
\* first statement of the body with the edges attached to its else branch
Managed(err, sl, ifnode) == [err |-> err, senslist |-> sl, ifnode |-> ifnode]

manageEdges(ifnode, sl) ==
    LET bt == BaseType(sl[1])
    IN IF \E i \in 1..Len(sl) : BaseType(sl[i]) # bt
       \* line 1054 names the undefined variable node
       THEN Managed("NameError", sl, ifnode)
       ELSE IF Len(sl) >= 2 /\ bt = "_WaiterList"
       THEN IF ifnode.s # "If" THEN Managed("AssertionError", sl, ifnode)
            ELSE IF \E i \in 1..Len(ifnode.tests) : getEdge(ifnode.tests[i].test) = NoEdge
            THEN Managed("ToVHDLError: no edge test", sl, ifnode)
            ELSE IF ~ifnode.else_.present
            THEN Managed("ToVHDLError: no else test", sl, ifnode)
            ELSE LET tested(s) == \E i \in 1..Len(ifnode.tests) :
                                      getEdge(ifnode.tests[i].test) = s
                     edges == SelectSeq(sl, LAMBDA s : ~tested(s))
                 IN Managed("none", [i \in 1..Len(sl) |-> PlainSignal(sl[i].sig)],
                            [ifnode EXCEPT !.else_.edge = [set |-> TRUE, edges |-> edges]])
       ELSE Managed("none", sl, ifnode)

\* lines 1090 and 1236 with no process taken for one of a single edge
singleEdge_mut(sl) ==
    Len(sl) = 1 /\ BaseType(sl[1]) = "None"

\* lines 1090 and 1236
singleEdge(sl) ==
    Len(sl) = 1 /\ BaseType(sl[1]) = "_WaiterList"

\* lines 363-371: one declaration per local variable
RECURSIVE writeVariables(_, _)
writeVariables(v, n) ==
    IF n = 0 THEN v
    ELSE writeVariables(W(writeline(v), <<[k |-> "variable"]>>), n - 1)

\* lines 288-294: the visitor as constructed, for the process a
NewVisitor(a) ==
    /\ ast = a
    /\ gpc = "visitFunction"
    /\ si = 0
    /\ buf = <<>>
    /\ isSigAss = FALSE
    /\ ind = 0
    /\ senslist = <<>>
    /\ depth = 0
    /\ gerr = "none"

Visitor == [buf |-> buf, isSigAss |-> isSigAss, ind |-> ind, depth |-> depth, kind |-> ast.kind]

\* lines 1272-1279 and 1312-1323: one declaration per parameter
RECURSIVE writeInterface(_, _)
writeInterface(v, n) ==
    IF n = 0 THEN v
    ELSE writeInterface(W(writeline(v), <<[k |-> "parameter"]>>), n - 1)

\* the visitFunction method of the class of the visitor, up to the visit of
\* the body: the header of the process or callable a, its declarations,
\* 'begin' and, for a process of a single edge, the guard 'if <edge> then'
\* (token "guard"); sl is the list manageEdges returned
Header(a, sl, v) ==
    LET sens == [i \in 1..Len(sl) |-> [k |-> "sens", sig |-> sl[i].sig]]
        begin(v2) == indent(W(writeline(v2), <<[k |-> "begin"]>>))
        guard(v3) == IF singleEdge(sl)
                     THEN indent(W(writeline(v3), <<[k |-> "guard", edge |-> sl[1]]>>))
                     ELSE v3
    IN CASE a.kind = "ALWAYS" ->       \* lines 1091-1109
              LET v1 == W(v, <<[k |-> "process"]>> \o sens \o <<[k |-> "is"]>>)
              IN guard(begin(dedent(writeVariables(indent(v1), a.vardict))))
         [] a.kind = "ALWAYS_DECO" ->  \* lines 1232-1250
              LET v1 == W(v, <<[k |-> "process"]>> \o sens)
                  v2 == W(dedent(writeVariables(indent(v1), a.vardict)), <<[k |-> "is"]>>)
              IN guard(begin(v2))
         [] a.kind = "ALWAYS_COMB" ->  \* lines 1154-1166
              LET v1 == W(v, <<[k |-> "process"]>> \o sens \o <<[k |-> "is"]>>)
              IN begin(dedent(writeVariables(indent(v1), a.vardict)))
         [] a.kind = "INITIAL" ->      \* lines 1131-1137
              LET v1 == W(v, <<[k |-> "process"], [k |-> "is"]>>)
              IN begin(dedent(writeVariables(indent(v1), a.vardict)))
         [] a.kind = "SIMPLE_ALWAYS_COMB" -> v   \* line 1185
         [] a.kind = "FUNCTION" ->     \* lines 1282-1293
              LET v1 == writeInterface(indent(W(v, <<[k |-> "function"]>>)), a.argnames)
                  v2 == W(writeline(v1), <<[k |-> "return"], [k |-> "is"]>>)
              IN begin(dedent(writeVariables(v2, a.vardict)))
         [] a.kind = "TASK" ->         \* lines 1326-1337
              LET v0 == W(v, <<[k |-> "procedure"]>>)
                  v1 == IF a.argnames > 0
                        THEN W(writeInterface(indent(W(v0, <<[k |-> "("]>>)), a.argnames),
                               <<[k |-> ")"]>>)
                        ELSE v0
                  v2 == W(v1, <<[k |-> "is"]>>)
              IN begin(dedent(writeVariables(v2, a.vardict)))

\* the visitFunction method of the class of the visitor, after the visit of
\* the body: the end of the guard (token "end guard") and of the process or
\* callable
Footer(a, sl, v) ==
    LET end(v1, kw) == writeline(writeline(W(writeline(v1), <<[k |-> kw]>>)))
    IN CASE a.kind \in {"ALWAYS", "ALWAYS_DECO"} ->   \* lines 1114-1121, 1252-1259
              LET v1 == dedent(v)
                  v2 == IF singleEdge(sl)
                        THEN dedent(W(writeline(v1), <<[k |-> "end guard"]>>))
                        ELSE v1
              IN end(v2, "end process")
         [] a.kind = "ALWAYS_COMB" -> end(dedent(v), "end process")   \* lines 1168-1171
         [] a.kind = "INITIAL" ->      \* lines 1139-1144
              end(dedent(W(writeline(v), <<[k |-> "wait;"]>>)), "end process")
         [] a.kind = "SIMPLE_ALWAYS_COMB" -> writeline(writeline(v))  \* line 1186
         [] a.kind = "FUNCTION" -> end(dedent(v), "end function")     \* lines 1295-1298
         [] a.kind = "TASK" -> end(dedent(v), "end procedure")        \* lines 1344-1347

\* the exception visitFunction raises before it visits the body
HeaderError(a, m) ==
    IF a.kind \in {"ALWAYS", "ALWAYS_DECO"} THEN m.err
    \* lines 1340-1342 read tests[0][0] of the first statement of a procedure
    ELSE IF a.kind = "TASK" /\ a.nodes[1].s # "If" THEN "AttributeError"
    ELSE "none"

\* visitFunction up to the visit of the body: manageEdges (lines 1089, 1199)
\* and the header
VisitFunctionBegin ==
    /\ gpc = "visitFunction"
    /\ LET m == IF ast.kind \in {"ALWAYS", "ALWAYS_DECO"}
                THEN manageEdges(ast.nodes[1], ast.senslist)
                ELSE Managed("none", ast.senslist, ast.nodes[1])
           err == HeaderError(ast, m)
           \* manageEdges raises before anything is written
           v == IF m.err # "none" THEN Visitor ELSE Header(ast, m.senslist, Visitor)
       IN /\ gerr' = err
          /\ gpc' = IF err # "none" THEN "raised" ELSE "body"
          /\ si' = IF err # "none" THEN si ELSE 1
          /\ ast' = [ast EXCEPT !.nodes[1] = m.ifnode]
          /\ senslist' = IF m.err # "none" THEN senslist ELSE m.senslist
          /\ buf' = v.buf
          /\ isSigAss' = v.isSigAss
          /\ ind' = v.ind
          /\ depth' = v.depth
    /\ UNCHANGED restVars

\* lines 1111-1113 and 986-989: one turn of the loop over the statements
VisitStatement ==
    /\ gpc = "body"
    /\ si <= Len(ast.nodes)
    /\ LET r == visit(ast.nodes[si], writeline(Visitor))
       IN /\ ast' = [ast EXCEPT !.nodes[si] = r.node]
          /\ buf' = r.v.buf
          /\ isSigAss' = r.v.isSigAss
          /\ ind' = r.v.ind
          /\ depth' = r.v.depth
    /\ si' = si + 1
    /\ UNCHANGED <<gpc, senslist, gerr, restVars>>

\* visitFunction after the visit of the body
VisitFunctionEnd ==
    /\ gpc = "body"
    /\ si > Len(ast.nodes)
    /\ LET v == Footer(ast, senslist, Visitor)
       IN /\ buf' = v.buf
          /\ isSigAss' = v.isSigAss
          /\ ind' = v.ind
          /\ depth' = v.depth
    /\ gpc' = "done"
    /\ UNCHANGED <<ast, si, senslist, gerr, restVars>>

NextGen ==
    \/ VisitFunctionBegin
    \/ VisitStatement
    \/ VisitFunctionEnd

---------------------------------------------------------------------------
(* The processes the code generation is run on *)

\* a process of a plain signal whose body is the statements nodes
Body(nodes) == Process("ALWAYS_DECO", <<PlainSignal(1)>>, 0, nodes)

Targets(D) == { AssAttr(d) : d \in D } \cup { AssName(d) : d \in D }

\* one assignment, of any pair of descriptors
AddOperands == {vhdl_int, vhdl_unsigned(1), vhdl_unsigned(MaxWidth), vhdl_signed(MaxWidth)}
Expressions ==
    { Name(d) : d \in Descriptors }
    \cup { GetattrNext(vhdl_unsigned(MaxWidth)) }
    \cup { Add(l, r) : l \in AddOperands, r \in AddOperands }
Assignments == { Assign(lhs, rhs) : lhs \in Targets(Descriptors), rhs \in Expressions }

InitAssign ==
    /\ ConvInit
    /\ TypeIdle
    /\ \E a \in Assignments : NewVisitor(Body(<<a>>))

SpecAssign == InitAssign /\ [][NextGen]_vars

\* sequences of assignments, augmented assignments and ROM look-ups
RomTables == { [i \in 1..n |-> i % 2] : n \in 1..MaxRom }
Statements ==
    { Assign(t, e) : t \in Targets({vhdl_unsigned(2)}),
                     e \in {Name(vhdl_unsigned(2)), GetattrNext(vhdl_unsigned(2))} }
    \cup { AugAssign(n, Name(vhdl_int)) :
               n \in {Name(vhdl_unsigned(2)), GetattrNext(vhdl_unsigned(2))} }
    \cup { RomAssign(t, Name(vhdl_int), rom) :
               t \in Targets({vhdl_std_logic, vhdl_int, vhdl_unsigned(2)}),
               rom \in RomTables }
StatementLists == UNION { [1..n -> Statements] : n \in 1..MaxStmts }

InitStmts ==
    /\ ConvInit
    /\ TypeIdle
    /\ \E nodes \in StatementLists : NewVisitor(Body(nodes))

SpecStmts == InitStmts /\ [][NextGen]_vars

\* conditionals: the suite of branch i assigns a value of width i
Suite(i) == <<Assign(AssName(vhdl_unsigned(i)), Name(vhdl_unsigned(i)))>>
Branch(i, suite) == [test |-> Compare(i, NoEdge), suite |-> suite]
InnerIf == If(<<Branch(1, Suite(1))>>, Else(Suite(2)), TRUE, FALSE)
Suites(i) == {Suite(i), <<InnerIf>>, <<AugAssign(GetattrNext(vhdl_unsigned(i)), Name(vhdl_int))>>}
Conditionals ==
    { If(tests, else_, isCase, ignore) :
        tests \in UNION { { <<>> \o [i \in 1..n |-> Branch(i, f[i])] :
                              f \in [1..n -> UNION { Suites(j) : j \in 1..n }] } :
                          n \in 1..MaxTests },
        else_ \in {NoElse} \cup { Else(s) : s \in Suites(MaxTests + 1) },
        isCase \in BOOLEAN, ignore \in BOOLEAN }

InitIf ==
    /\ ConvInit
    /\ TypeIdle
    /\ \E c \in Conditionals : NewVisitor(Body(<<c>>))

SpecIf == InitIf /\ [][NextGen]_vars

\* processes over every sensitivity list, whose first statement is an
\* assignment or a conditional with edge tests
SensEntries == {posedge(1), negedge(2), posedge(3), PlainSignal(1), PlainSignal(2), Delay}
SensLists == UNION { [1..n -> SensEntries] : n \in 1..MaxSens }
EdgeTests == {posedge(1), negedge(2), NoEdge}
EdgeBranches ==
    { <<[test |-> Compare(1, e), suite |-> Suite(1)]>> : e \in EdgeTests }
    \cup { <<[test |-> Compare(1, e1), suite |-> Suite(1)],
             [test |-> Compare(2, e2), suite |-> Suite(2)]>> :
           e1 \in EdgeTests, e2 \in EdgeTests }
FirstStatements ==
    { Suite(1)[1] }
    \cup { If(tests, else_, FALSE, FALSE) :
             tests \in EdgeBranches, else_ \in {NoElse, Else(Suite(3))} }
Processes ==
    { Process(kind, sl, nvars, <<first>>) :
        kind \in {"ALWAYS", "ALWAYS_DECO"}, sl \in SensLists, nvars \in 0..1,
        first \in FirstStatements }

InitProcess ==
    /\ ConvInit
    /\ TypeIdle
    /\ \E p \in Processes : NewVisitor(p)

SpecProcess == InitProcess /\ [][NextGen]_vars

\* loops over range and downrange calls of one or two arguments, whose body
\* is an assignment or a loop
Loops ==
    { For(f, <<>> \o args, body) :
        f \in {"range", "downrange"},
        args \in UNION { [1..n -> -1..MaxRange] : n \in 1..2 },
        body \in {Suite(1), <<For("range", <<2>>, Suite(2))>>} }

InitFor ==
    /\ ConvInit
    /\ TypeIdle
    /\ \E l \in Loops : NewVisitor(Body(<<l>>))

SpecFor == InitFor /\ [][NextGen]_vars

\* simple combinational processes: up to MaxStmts next-value assignments
InitComb ==
    /\ ConvInit
    /\ TypeIdle
    /\ \E nodes \in UNION { [1..n -> { Assign(AssAttr(d), Name(r)) :
                                         d \in {vhdl_std_logic, vhdl_unsigned(2), vhdl_signed(2)},
                                         r \in {vhdl_std_logic, vhdl_unsigned(2), vhdl_int} }] :
                              n \in 1..MaxStmts } :
           NewVisitor(Process("SIMPLE_ALWAYS_COMB", <<PlainSignal(1), PlainSignal(2)>>, 0, nodes))

SpecComb == InitComb /\ [][NextGen]_vars

\* processes and callables of every kind, whose body is up to MaxStmts
\* statements that nest conditionals, case statements, ROM look-ups and loops
Units ==
    LET rom == RomAssign(AssName(vhdl_unsigned(2)), Name(vhdl_int), <<0, 1>>)
        while == While(Compare(1, NoEdge), Suite(1))
        for == For("range", <<2>>, <<while>>)
        stmts == { Suite(1)[1], rom, InnerIf,
                   If(<<Branch(1, <<for>>)>>, Else(<<rom>>), FALSE, FALSE),
                   If(<<Branch(1, Suite(1))>>, NoElse, FALSE, FALSE),
                   For("downrange", <<2>>, <<InnerIf>>),
                   While(Compare(2, NoEdge), <<for>>) }
        bodies == UNION { [1..n -> stmts] : n \in 1..MaxStmts }
    IN { Process(kind, sl, 1, <<>> \o nodes) :
           kind \in {"ALWAYS", "ALWAYS_DECO"},
           sl \in {<<posedge(1)>>, <<PlainSignal(1), PlainSignal(2)>>}, nodes \in bodies }
       \cup { Process(kind, <<PlainSignal(1)>>, 1, <<>> \o nodes) :
                 kind \in {"ALWAYS_COMB", "INITIAL", "SIMPLE_ALWAYS_COMB"}, nodes \in bodies }
       \cup { Callable(kind, nargs, 1, <<>> \o nodes) :
                 kind \in {"FUNCTION", "TASK"}, nargs \in 0..1, nodes \in bodies }

InitIndent ==
    /\ ConvInit
    /\ TypeIdle
    /\ \E u \in Units : NewVisitor(u)

SpecIndent == InitIndent /\ [][NextGen]_vars

---------------------------------------------------------------------------
(* Properties *)

\* the tokens of kind k in a text
Toks(q, k) == SelectSeq(q, LAMBDA t : t.k = k)
HasTok(q, tok) == \E i \in 1..Len(q) : q[i] = tok

\* the declarations of enumerated type e in a text
EnumDecls(q, e) == SelectSeq(q, LAMBDA t : t.k = "type" /\ t.n = EnumName(e))

\* signal s is bound to a top-level port of the running design
PortBound(s) == \E i \in 1..Len(design.ports) : design.ports[i].sig = s

\* C1: a toVHDL call made while _converting is set returns the result of the
\* plain call of func and changes neither the guard, nor any signal
\* annotation, nor any declared flag, nor the output file and its text; no
\* conversion is started.
C1_NestedCallIsPassThrough ==
    [][ (_converting # 0 /\ (nskip' # nskip \/ nconv' # nconv))
        => /\ result' = "func_result"
           /\ UNCHANGED <<_converting, sigs, declared, _enumTypeList, vfile, out,
                          pc, design, nconv>> ]_vars

C1_Witness ==
    /\ pc = "extract"
    /\ _converting = 1
    /\ nskip > 0
    /\ result = "func_result"

\* the enumerated types the declaration sites of the running design meet: the
\* types of the signals that reach line 193 and the types of the variables
\* and parameters handed to writeDeclaration
RefBySignal(e) ==
    \E s \in Range(design.hier) :
        /\ SigTable[s].kind = "enum"
        /\ SigTable[s].enum = e
        /\ ~PortBound(s)
        /\ ~InArgnames(SigTable[s].hname)
RefByGen(e) ==
    \E i \in 1..Len(design.gens) :
        \/ e \in Range(design.gens[i].vars)
        \/ \E j \in 1..Len(design.gens[i].calls) : e \in Range(design.gens[i].calls[j])

\* C2: the output of a conversion that returned holds exactly one declaration
\* of every enumerated type its signals, variables and parameters refer to.
C2_EnumDeclaredExactlyOnce ==
    pc = "returned" =>
        \A e \in EnumTypes :
            (RefBySignal(e) \/ RefByGen(e)) => Len(EnumDecls(out, e)) = 1

\* C3: when a top-level conversion begins, no enumerated type has its declared
\* flag set, whatever the earlier conversions did.
C3_NoTypeDeclaredAtStart ==
    pc = "extract" => \A e \in EnumTypes : ~declared[e]

\* C4: when a top-level conversion has returned, every signal of siglist has
\* no name and is neither driven nor read, and every enumerated type declared
\* in its output has its declared flag cleared.
C4_CleanAfterReturn ==
    pc = "returned" =>
        /\ \A s \in Range(design.hier) :
               sigs[s].name = None /\ ~sigs[s].driven /\ ~sigs[s].read
        /\ \A e \in EnumTypes : Len(EnumDecls(out, e)) > 0 => ~declared[e]

C4_Witness ==
    /\ pc = "returned"
    /\ design.driven # {}
    /\ design.ports # <<>>
    /\ \E e \in EnumTypes : Len(EnumDecls(out, e)) > 0

\* the port the header holds for argument i, given the flags of its signal
ExpectedPort(i) ==
    LET s == design.ports[i].sig
    IN Tok("port", design.ports[i].name,
           (IF sigs[s].driven THEN "out" ELSE "in") \o " " \o _getTypeString(s),
           _getRangeString(s))

\* C5: the header holds one port per top-level argument, in argument order,
\* with direction out when the bound signal is driven and in otherwise.
C5_PortDirections ==
    /\ pc = "ports" =>
           /\ Len(Toks(out, "port")) = idx - 1
           /\ \A i \in 1..(idx - 1) : Toks(out, "port")[i] = ExpectedPort(i)
    /\ pc \in {"headerEnd", "sigdecls", "gens", "footer"} =>
           /\ Len(Toks(out, "port")) = Len(design.ports)
           /\ \A i \in 1..Len(design.ports) : Toks(out, "port")[i] = ExpectedPort(i)

C5_Witness ==
    /\ pc = "headerEnd"
    /\ Len(design.ports) = 2
    /\ sigs[design.ports[1].sig].driven
    /\ ~sigs[design.ports[2].sig].driven

\* C6: in a turn of the port loop, the signal bound to the port carries the
\* port name when its port is written, and when another object already
\* carries the port name the call raises ShadowingSignal and writes no port.
C6_PortNameForcedOrShadowingError ==
    [][ pc = "ports" =>
          LET p == design.ports[idx]
          IN /\ (\E t \in Sigs \ {p.sig} : sigs[t].name = p.name)
                   => /\ pc' = "raised"
                      /\ result' = "error:ShadowingSignal"
                      /\ Toks(out', "port") = Toks(out, "port")
             /\ Toks(out', "port") # Toks(out, "port")
                   => sigs'[p.sig].name = p.name ]_vars

\* a signal of siglist that is not a port, is read and is not driven
ReadUndriven(s) ==
    /\ s \in Range(design.hier)
    /\ ~InArgnames(sigs[s].name)
    /\ ~sigs[s].driven
    /\ sigs[s].read

\* C7: once _writeSigDecls is through, every read and undriven signal that is
\* not a port has its declaration, the constant assignment of its value and
\* an UndrivenSignal advisory, and the driven signals of the list, those
\* after it included, have their declarations: the call did not stop.
C7_UndrivenSignalRecovered ==
    pc \in {"gens", "footer"} =>
        \A s \in Range(design.hier) :
            /\ ReadUndriven(s) =>
                   /\ HasTok(out, Tok("wire", sigs[s].name, "", _getRangeString(s)))
                   /\ HasTok(out, Tok("assign", sigs[s].name, "", SigTable[s].val))
                   /\ HasTok(warns, Tok("UndrivenSignal", sigs[s].name, "", 0))
            /\ (~InArgnames(sigs[s].name) /\ sigs[s].driven) =>
                   HasTok(out, Tok("signal", sigs[s].name, _getTypeString(s),
                                   _getRangeString(s)))

C7_Witness ==
    /\ pc = "footer"
    /\ ReadUndriven(1)
    /\ ~InArgnames(sigs[2].name) /\ sigs[2].driven
    /\ ReadUndriven(3)

\* C8: when an error leaves the call, the output file is not left open.
C8_FileClosedOnError ==
    pc = "raised" => vfile # "open"

\* C9: the conversion that follows a returned conversion of the same design
\* writes the same text.
C9_SameOutputTwice ==
    [][ (pc = "footer" /\ pc' = "returned" /\ prevDesign = design)
        => out' = prevOut ]_vars

\* C10: for operands among Bit, Boolean, Integer, Signed(w), Unsigned(w),
\* maxType returns Signed of the larger size when one is Signed, else Unsigned
\* of the larger size when one is Unsigned, else Bit when one is Bit, else
\* Integer when one is Integer, and the same for the operands exchanged.
C10_MaxTypeTable ==
    (tpc = "done" /\ o1 # NoType /\ o2 # NoType) =>
        LET w == IF o1.size >= o2.size THEN o1.size ELSE o2.size
            either(k) == o1.t = k \/ o2.t = k
        IN /\ either("signed") => mt = [t |-> "signed", size |-> w]
           /\ (~either("signed") /\ either("unsigned"))
                 => mt = [t |-> "unsigned", size |-> w]
           /\ (~either("signed") /\ ~either("unsigned") /\ either("std_logic"))
                 => mt = [t |-> "std_logic", size |-> 1]
           /\ (~either("signed") /\ ~either("unsigned") /\ ~either("std_logic")
                 /\ either("int"))
                 => mt = [t |-> "int", size |-> 0]
           /\ mt = maxType(o2, o1)

C10_Witness ==
    /\ tpc = "done"
    /\ o1.t = "unsigned" /\ o1.size = 1
    /\ o2.t = "signed" /\ o2.size = 2
    /\ mt = [t |-> "signed", size |-> 2]

\* the positions of the tokens of the kinds ks in the output text
Positions(ks) == { j \in 1..Len(out) : out[j].k \in ks }
Before(A, B) == \A a \in A : \A b \in B : a < b

\* C17: the output text of a conversion holds, in this order, the preamble,
\* the entity, the architecture header, the helper subprogram declarations,
\* the signal and memory declarations, the text of every callable called from
\* a process, 'begin', one block per process in the order of the process list,
\* and the end of the architecture: every callable is written before
\* 'begin' and every process after it.
C17_SectionOrder ==
    pc = "returned" =>
        LET sections == <<{"preamble"}, {"entity", "port (", "port", ");", "end entity"},
                          {"architecture"}, {"funcdecls"},
                          {"signal", "wire", "reg", "assign"},
                          {"function", "in", "end function"}, {"begin"},
                          {"process", "variable", "end process"}, {"end architecture"}>>
        IN /\ \A a \in 1..Len(sections) : \A b \in 1..Len(sections) :
                 a < b => Before(Positions(sections[a]), Positions(sections[b]))
           /\ \A k \in {"preamble", "entity", "architecture", "funcdecls", "begin",
                         "end architecture"} : Cardinality(Positions({k})) = 1
           /\ Toks(out, "process")
                = [i \in 1..Len(design.gens) |-> Tok("process", "", "", i)]
           /\ Toks(out, "end process")
                = [i \in 1..Len(design.gens) |-> Tok("end process", "", "", i)]
           /\ Len(Toks(out, "function"))
                = Cardinality({ <<i, j>> \in (1..Len(design.gens)) \X (1..2) :
                                  j <= Len(design.gens[i].calls) })

C17_Witness ==
    /\ pc = "returned"
    /\ Len(design.gens) = 2
    /\ Len(Toks(out, "function")) = 1
    /\ Len(Toks(out, "signal")) > 0
    /\ Len(Toks(out, "process")) = 2

---------------------------------------------------------------------------
(* Type inference *)

\* neither operand is Signed, Unsigned, Bit or Integer
NoNumeric(a, b) ==
    /\ a.t \in {"boolean", "None"}
    /\ b.t \in {"boolean", "None"}

Rank(a) == CASE a.t = "signed" -> 4 [] a.t = "unsigned" -> 3 [] a.t = "std_logic" -> 2
             [] a.t = "int" -> 1 [] OTHER -> 0
Combined(a, b) ==
    LET top == IF Rank(a) >= Rank(b) THEN a ELSE b
        w == IF a.size >= b.size THEN a.size ELSE b.size
    IN IF Rank(top) >= 3 THEN [t |-> top.t, size |-> w]
       ELSE IF Rank(top) = 0 THEN NoType
       ELSE top

\* C22: once visitCompare has returned, the comparison node carries Boolean
\* and its two operands carry one and the same descriptor, the combination
\* of the descriptors they had after the visit of the children.
C22_CompareUnified ==
    tpc = "visitCompare" =>
        /\ nobj = vhdl_boolean
        /\ lobj = robj
        /\ lobj = Combined(o1, o2)

C22_Witness ==
    /\ tpc = "visitCompare"
    /\ o1 = vhdl_unsigned(2)
    /\ o2 = vhdl_signed(1)
    /\ lobj = vhdl_signed(2)
    /\ robj = vhdl_signed(2)

\* C12: the descriptor of an addition, subtraction or modulo node is Integer
\* when both operands are Integer, Signed of the larger width when both are
\* Signed or Integer and not both Integer, Unsigned of the larger width when
\* both are Unsigned or Integer and not both Integer, and Integer for every
\* other pair of operands.
C12_ArithmeticResult ==
    tpc = "binaryOp" =>
        LET both(S) == o1.t \in S /\ o2.t \in S
            w == IF o1.size >= o2.size THEN o1.size ELSE o2.size
        IN /\ both({"int"}) => nobj = vhdl_int
           /\ (both({"signed", "int"}) /\ ~both({"int"})) => nobj = vhdl_signed(w)
           /\ (both({"unsigned", "int"}) /\ ~both({"int"})) => nobj = vhdl_unsigned(w)
           /\ (~both({"signed", "int"}) /\ ~both({"unsigned", "int"}))
                  => nobj = vhdl_int

C12_Witness ==
    /\ tpc = "binaryOp"
    /\ o1 = vhdl_signed(1)
    /\ o2 = vhdl_signed(2)
    /\ nobj = vhdl_signed(2)

---------------------------------------------------------------------------
(* Code generation *)

\* the step that visits statement si of the body, and the text it writes
\* after the line break of the statement loop
VisitsStatement == gpc = "body" /\ si <= Len(ast.nodes) /\ si' = si + 1
Emitted == SubSeq(buf', Len(buf) + 2, Len(buf'))
IsPlainAssign(node) == node.s = "Assign" /\ node.rom = <<>>
IsRomAssign(node) == node.s = "Assign" /\ node.rom # <<>>
Conversions(q) == SelectSeq(q, LAMBDA t : t.k \in {"to_unsigned(", "to_signed("})

\* C13: in a plain assignment whose left hand side is Unsigned(n) or
\* Signed(n), a right hand side of another kind or width is written inside
\* to_unsigned(..., n) or to_signed(..., n) with n the width of the left hand
\* side, and a right hand side of the same kind and width is written without
\* conversion; when the left hand side is Bit, the right hand side has the
\* descriptor Bit when it is written.
C13_AssignConversion ==
    [][ (VisitsStatement /\ IsPlainAssign(ast.nodes[si])) =>
        LET lhs == ast.nodes[si].nodes[1].vhdlObj
            rhs == ast.nodes[si].expr
            q == Emitted
            open == IF lhs.t = "unsigned" THEN "to_unsigned(" ELSE "to_signed("
        IN /\ (lhs.t \in {"unsigned", "signed"} /\ rhs.vhdlObj # lhs) =>
                 \* target, operator, open, the right hand side, close, ;
                 /\ Conversions(q) = <<[k |-> open]>>
                 /\ q[3] = [k |-> open]
                 /\ Toks(q, ", size)") = <<[k |-> ", size)", size |-> lhs.size]>>
                 /\ q[Len(q) - 1] = [k |-> ", size)", size |-> lhs.size]
                 /\ Len(q) > 5
           /\ (lhs.t \in {"unsigned", "signed"} /\ rhs.vhdlObj = lhs) =>
                 /\ Conversions(q) = <<>>
                 /\ Toks(q, ", size)") = <<>>
           /\ lhs.t = "std_logic" =>
                 /\ ast'.nodes[si].expr.vhdlObj = vhdl_std_logic
                 /\ rhs.e = "Name" => q[3] = Leaf(Name(vhdl_std_logic))
                 /\ Conversions(q) = <<>> ]_vars

C13_Witness ==
    /\ gpc = "done"
    /\ ast.nodes[1].nodes[1].vhdlObj = vhdl_signed(MaxWidth)
    /\ HasTok(buf, [k |-> "to_signed("])
    /\ HasTok(buf, Leaf(Name(vhdl_int)))
    /\ HasTok(buf, [k |-> ", size)", size |-> MaxWidth])

\* the descriptors of the nodes of an expression and of a statement
ExprDescriptors(x) ==
    IF x.e = "Add" THEN <<x.vhdlObj, x.left.vhdlObj, x.right.vhdlObj>> ELSE <<x.vhdlObj>>
StmtDescriptors(node) ==
    IF node.s = "Assign"
    THEN <<node.nodes[1].vhdlObj>> \o ExprDescriptors(node.expr)
    ELSE <<>>

\* C19 as stated: the code generation leaves the descriptor of every
\* expression node as the type inference set it.
C19_DescriptorsFixed ==
    [][ \A i \in 1..Len(ast.nodes) :
            StmtDescriptors(ast'.nodes[i]) = StmtDescriptors(ast.nodes[i]) ]_vars

\* C19 as the code has it: the code generation leaves the descriptors as the
\* type inference set them but for two replacements: visitAssign gives the
\* right hand side of a plain assignment Integer when it writes a conversion
\* around it and Bit when the left hand side is Bit, and binaryOp gives both
\* operands of a node whose descriptor is Integer the descriptor Integer.
C19_DescriptorsReplaced ==
    [][ \A i \in 1..Len(ast.nodes) :
          IsPlainAssign(ast.nodes[i]) =>
            LET lhs == ast.nodes[i].nodes[1].vhdlObj
                rhs == ast.nodes[i].expr
                rhs2 == ast'.nodes[i].expr
                converted == Conversions(SubSeq(buf', Len(buf) + 1, Len(buf'))) # <<>>
                visited == VisitsStatement /\ i = si
            IN /\ ast'.nodes[i].nodes[1].vhdlObj = lhs
               /\ rhs2.vhdlObj = IF visited /\ converted THEN vhdl_int
                                 ELSE IF visited /\ lhs.t = "std_logic" THEN vhdl_std_logic
                                 ELSE rhs.vhdlObj
               /\ rhs.e = "Add" =>
                     IF visited /\ rhs2.vhdlObj = vhdl_int
                     THEN rhs2.left.vhdlObj = vhdl_int /\ rhs2.right.vhdlObj = vhdl_int
                     ELSE rhs2.left = rhs.left /\ rhs2.right = rhs.right ]_vars

C19_Witness ==
    /\ gpc = "done"
    /\ ast.nodes[1].nodes[1].vhdlObj = vhdl_unsigned(1)
    /\ ast.nodes[1].expr.e = "Add"
    /\ ast.nodes[1].expr.vhdlObj = vhdl_int
    /\ ast.nodes[1].expr.left.vhdlObj = vhdl_int
    /\ HasTok(buf, [k |-> "to_unsigned("])

\* the assignment operators in a text, and the target of a statement is the
\* next attribute of a signal
Operators(q) == SelectSeq(q, LAMBDA t : t.k \in {"<=", ":="})
TargetIsNext(node) ==
    IF node.s = "AugAssign" THEN node.node.e = "Getattr" ELSE node.nodes[1].e = "AssAttr"

\* C14: a ROM look-up with a table of k entries is written as a case
\* statement of k alternatives in table order, 'when i' for entry i < k-1 and
\* 'when others' for the last one, each assigning the literal of its entry
\* (a character for a Bit target, a decimal for an Integer target, a binary
\* string of the width of the target otherwise) to the same left hand side
\* with the same assignment operator.
C14_RomCase ==
    [][ (VisitsStatement /\ IsRomAssign(ast.nodes[si])) =>
        LET node == ast.nodes[si]
            lhs == node.nodes[1]
            n == Len(node.rom)
            q == Emitted
            \* case, index, is, then per entry: line break, when, target, operator, literal
            alt(j) == SubSeq(q, 5 * j - 1, 5 * j + 3)
            form == IF lhs.vhdlObj.t = "std_logic" THEN "char"
                    ELSE IF lhs.vhdlObj.t = "int" THEN "decimal" ELSE "bin"
        IN /\ Len(q) = 3 + 5 * n + 2
           /\ q[1] = [k |-> "case"] /\ q[3] = [k |-> "is"]
           /\ q[Len(q)] = [k |-> "end case;"]
           /\ \A j \in 1..n :
                 /\ alt(j)[2] = IF j = n THEN [k |-> "when others"]
                                 ELSE [k |-> "when", choice |-> j - 1]
                 /\ alt(j)[3] = [k |-> "target", e |-> lhs.e]
                 /\ alt(j)[4] = alt(1)[4]
                 /\ alt(j)[4].k \in {"<=", ":="}
                 /\ alt(j)[5].k = "literal"
                 /\ alt(j)[5].form = form
                 /\ alt(j)[5].n = node.rom[j]
                 /\ form = "bin" => alt(j)[5].size = lhs.vhdlObj.size ]_vars

\* C18: every assignment is written with '<=' when its own target is the
\* next attribute of a signal and with ':=' otherwise, whatever the
\* statements before it and whatever its right hand side reads: isSigAss is
\* false when the emission of an assignment begins.
C18_OperatorOfOwnTarget ==
    [][ VisitsStatement =>
        /\ isSigAss = FALSE
        /\ \A j \in 1..Len(Operators(Emitted)) :
              Operators(Emitted)[j].k = IF TargetIsNext(ast.nodes[si]) THEN "<=" ELSE ":=" ]_vars

\* the positions in a text of the keywords kinds written at the start of a
\* line of indentation level
HeadsAt(q, kinds, level) ==
    SelectSeq([j \in 1..Len(q) |-> j],
              LAMBDA j : j > 1 /\ q[j].k \in kinds /\ q[j - 1] = [k |-> "nl", ind |-> level])
\* the texts the visitor writes for a suite at an indentation level
SuiteTexts(nodes, level) ==
    { visitStmt(nodes, 1, [buf |-> <<>>, isSigAss |-> f, ind |-> level]).v.buf : f \in BOOLEAN }

AllEdges == \A i \in 1..Len(ast.senslist) : BaseType(ast.senslist[i]) = "_WaiterList"
\* the edges the tests of the first statement of the body test
TestedEdges == { getEdge(ast.nodes[1].tests[j].test) : j \in 1..Len(ast.nodes[1].tests) }
\* the keywords of the outermost conditional of an unguarded body
OuterKeywords == LET H == HeadsAt(buf, {"if", "elsif", "else"}, 1)
                 IN [j \in 1..Len(H) |-> buf[H[j]]]
Position(q, kind) == CHOOSE j \in 1..Len(q) : q[j].k = kind

\* C16: the process of a sensitivity list of exactly one edge-waiter is
\* sensitive to the signal of that edge and its body is wrapped in exactly one
\* 'if <edge> then ... end if;'; the process of a list of two or more
\* edge-waiters is sensitive to the signals of the edges, has no wrapping
\* guard, and tests the edges in the outermost if/elsif of its body, whose last
\* branch is the elsif of the untested edges.
C16_EdgeGuard ==
    (gpc = "done" /\ AllEdges) =>
        LET sl == ast.senslist
        IN /\ Toks(buf, "sens") = [i \in 1..Len(sl) |-> [k |-> "sens", sig |-> sl[i].sig]]
           /\ Len(sl) = 1 =>
                 /\ Toks(buf, "guard") = <<[k |-> "guard", edge |-> sl[1]]>>
                 /\ Len(Toks(buf, "end guard")) = 1
                 \* begin, line break, the guard, the body, line break, end guard,
                 \* line break, end process and two line breaks
                 /\ Position(buf, "guard") = Position(buf, "begin") + 2
                 /\ Position(buf, "end guard") = Len(buf) - 4
                 /\ buf[Len(buf) - 2].k = "end process"
           /\ Len(sl) >= 2 =>
                 /\ Toks(buf, "guard") = <<>>
                 /\ Toks(buf, "end guard") = <<>>
                 /\ senslist = [i \in 1..Len(sl) |-> PlainSignal(sl[i].sig)]
                 /\ buf[Position(buf, "begin") + 2].k = "if"
                 /\ Len(OuterKeywords) = Len(ast.nodes[1].tests) + 1
                 /\ \A j \in 1..Len(ast.nodes[1].tests) :
                       /\ OuterKeywords[j] = [k |-> IF j = 1 THEN "if" ELSE "elsif",
                                              cond |-> <<ast.nodes[1].tests[j].test>>]
                       /\ getEdge(ast.nodes[1].tests[j].test) # NoEdge
                 /\ LET last == OuterKeywords[Len(OuterKeywords)]
                    IN /\ last.k = "elsif"
                       /\ \A j \in 1..Len(last.cond) :
                             /\ \E i \in 1..Len(sl) : sl[i] = last.cond[j]
                             /\ last.cond[j] \notin TestedEdges

C16_Witness ==
    /\ gpc = "done"
    /\ ast.senslist = <<posedge(1)>>
    /\ HasTok(buf, [k |-> "guard", edge |-> posedge(1)])
    /\ HasTok(buf, [k |-> "end guard"])

\* C20: in the process of a sensitivity list of two or more edge-waiters, the
\* edges attached to the else branch of the outermost conditional are the
\* edges of the list that no test of the conditional tests, in the order of
\* the list, and the else branch is written as an elsif on the OR of the
\* tests of these edges, not as a plain else.
C20_ElseEdges ==
    (gpc \in {"body", "done"} /\ AllEdges /\ Len(ast.senslist) >= 2) =>
        LET sl == ast.senslist
            attached == getEdge(ast.nodes[1].else_)
            edges == attached.edges
        IN /\ attached.set
           /\ { edges[j] : j \in 1..Len(edges) }
                = { sl[i] : i \in 1..Len(sl) } \ TestedEdges
           \* in the order of the list, each entry once
           /\ \E f \in [1..Len(edges) -> 1..Len(sl)] :
                 /\ \A j \in 1..Len(edges) : sl[f[j]] = edges[j]
                 /\ \A j \in 1..Len(edges) - 1 : f[j] < f[j + 1]
           /\ Len(edges) = Cardinality({ i \in 1..Len(sl) : sl[i] \notin TestedEdges })
           /\ gpc = "done" =>
                 /\ OuterKeywords[Len(OuterKeywords)] = [k |-> "elsif", cond |-> edges]
                 /\ \A j \in 1..Len(OuterKeywords) : OuterKeywords[j].k # "else"

C20_Witness ==
    /\ gpc = "done"
    /\ ast.senslist = <<posedge(1), negedge(2)>>
    /\ TestedEdges = {negedge(2)}
    /\ HasTok(buf, [k |-> "elsif", cond |-> <<posedge(1)>>])

\* the sensitivity list of the process mixes base kinds
MixedKinds ==
    \E i \in 1..Len(ast.senslist) : BaseType(ast.senslist[i]) # BaseType(ast.senslist[1])
\* the first statement of the body is a conditional that manageEdges rejects
\* for a list of two or more edge-waiters
RejectedConditional ==
    /\ AllEdges
    /\ Len(ast.senslist) >= 2
    /\ ast.nodes[1].s = "If"
    /\ \/ ~ast.nodes[1].else_.present
       \/ NoEdge \in TestedEdges
TranslationErrors == {"ToVHDLError: no edge test", "ToVHDLError: no else test",
                      "ToVHDLError: base type error in sensitivity list"}

\* C21: when the sensitivity list mixes base kinds, or holds two or more
\* edge-waiters while the outermost conditional of the body has no else branch
\* or has a test that is no edge test, visitFunction ends with a translation
\* error and nothing of the process is written.
C21_StructuralError ==
    (gpc # "visitFunction" /\ (MixedKinds \/ RejectedConditional)) =>
        /\ gpc = "raised"
        /\ gerr \in TranslationErrors
        /\ buf = <<>>

\* the value of a written bound, and the index values a VHDL loop of the
\* written header takes, in order
ValueOf(w) == IF w.oneoff THEN w.val - 1 ELSE w.val
LoopIndices(tok) ==
    LET l == ValueOf(tok.left)
        r == ValueOf(tok.right)
    IN IF tok.op = "to" THEN [i \in 1..(r - l + 1) |-> l + i - 1]
       ELSE [i \in 1..(l - r + 1) |-> l - i + 1]
\* the values the source loop takes: range(stop), range(start, stop),
\* downrange(start) and downrange(start, stop) = range(start-1, stop-1, -1)
Iteration(node) ==
    LET a == node.args
        start == IF Len(a) = 2 \/ node.f = "downrange" THEN a[1] ELSE 0
        stop == IF Len(a) = 2 THEN a[2] ELSE IF node.f = "range" THEN a[1] ELSE 0
    IN IF node.f = "range" THEN [i \in 1..(stop - start) |-> start + i - 1]
       ELSE [i \in 1..(start - stop) |-> start - i]
FirstPosition(q, kind) ==
    CHOOSE j \in 1..Len(q) : q[j].k = kind /\ \A h \in 1..(j - 1) : q[h].k # kind
LastPosition(q, kind) ==
    CHOOSE j \in 1..Len(q) : q[j].k = kind /\ \A h \in (j + 1)..Len(q) : q[h].k # kind

\* C23: a loop over range(start, stop) is written 'for v in start to stop-1
\* loop' with 0 for a start left out, a loop over downrange(start, stop) is
\* written 'for v in start-1 downto stop loop' with 0 for a stop left out; the
\* written loop takes the index values of the source loop in the same order,
\* and the body is written between the header and 'end loop;'.
C23_RangeLoop ==
    (gpc = "done" /\ ast.nodes[1].s = "For") =>
        LET node == ast.nodes[1]
            a == node.args
            h == FirstPosition(buf, "for")
            e == LastPosition(buf, "end loop;")
            tok == buf[h]
            inner == SubSeq(buf, h + 1, e - 2)
            stmts(q) == Len(Toks(q, ";")) + Len(Toks(q, "for"))
        IN /\ node.f = "range" =>
                /\ tok.op = "to"
                /\ tok.left = IF Len(a) = 2 THEN Written(TRUE, a[1], FALSE)
                              ELSE Written(FALSE, 0, FALSE)
                /\ tok.right = Written(TRUE, a[Len(a)], TRUE)
           /\ node.f = "downrange" =>
                /\ tok.op = "downto"
                /\ tok.left = Written(TRUE, a[1], TRUE)
                /\ tok.right = IF Len(a) = 2 THEN Written(TRUE, a[2], FALSE)
                               ELSE Written(FALSE, 0, FALSE)
           /\ LoopIndices(tok) = Iteration(node)
           \* the body: one level deeper than the header, all of it before the
           \* line of 'end loop;'
           /\ h < e
           /\ buf[h - 1] = [k |-> "nl", ind |-> 1]
           /\ buf[e - 1] = [k |-> "nl", ind |-> 1]
           /\ inner[1] = [k |-> "nl", ind |-> 2]
           /\ inner[2].k = IF node.body[1].s = "For" THEN "for" ELSE "target"
           /\ stmts(inner) = stmts(buf) - 1
           /\ \A j \in 1..Len(inner) : inner[j].k = "nl" => inner[j].ind >= 2

C23_Witness ==
    /\ gpc = "done"
    /\ ast.nodes[1].s = "For"
    /\ ast.nodes[1].f = "downrange"
    /\ ast.nodes[1].args = <<3, 1>>
    /\ LoopIndices(buf[FirstPosition(buf, "for")]) = <<2, 1>>
    /\ HasTok(buf, [k |-> "end loop;"])

\* the tokens of the header and the footer of a process
Wrapper == {"process", "sens", "is", "variable", "begin", "guard", "end guard", "end process"}

\* C24: for a simple combinational process no header and no footer is
\* written, and every next-value assignment of its body is written as the
\* signal assignment '<target> <= <expression>;', never with ':='.
C24_ContinuousAssignments ==
    (gpc = "done" /\ ast.kind = "SIMPLE_ALWAYS_COMB") =>
        /\ \A j \in 1..Len(buf) : buf[j].k \notin Wrapper
        /\ Len(Toks(buf, "<=")) = Len(ast.nodes)
        /\ Len(Toks(buf, ":=")) = 0
        /\ \A j \in 1..Len(buf) :
              buf[j].k = "target" => (buf[j - 1].k = "nl" /\ buf[j + 1].k = "<=")

---------------------------------------------------------------------------
(* The guard and the registry of the convertor *)

\* C25: _converting is 0 whenever no top-level call is running, that is
\* before the first call and after a call has returned or raised, whatever
\* step failed; it is 1 only while the hierarchy extraction of a call runs.
C25_GuardCleared ==
    /\ pc \in {"idle", "returned", "raised"} => _converting = 0
    /\ _converting # 0 => pc = "extract"

\* C26: at every point every enumerated type whose declared flag is set is a
\* member of _enumTypeList, and when a conversion has returned its clean-up
\* loop has cleared every flag.
C26_DeclaredAreRegistered ==
    /\ \A e \in EnumTypes : declared[e] => e \in Range(_enumTypeList)
    /\ pc = "returned" => \A e \in EnumTypes : ~declared[e]

C26_Witness ==
    /\ pc = "returned"
    /\ \A e \in EnumTypes : Len(EnumDecls(out, e)) = 1 /\ e \in Range(_enumTypeList)
    /\ \A e \in EnumTypes : ~declared[e]

---------------------------------------------------------------------------
(* Indentation *)

\* the procedure without parameters: line 1334 calls dedent without the
\* indent of line 1329
BareProcedure == ast.kind = "TASK" /\ ast.argnames = 0

\* C27: in the visitor of every kind of process and callable, over bodies
\* that nest if, case, ROM case, for and while, every call of indent is
\* matched by a call of dedent: the indentation level is never below zero and
\* is zero when visitFunction has returned. The calls are equal in number
\* throughout, but for the procedure without parameters, which calls dedent
\* once at level zero.
C27_IndentBalanced ==
    /\ ind >= 0
    /\ gpc = "done" => ind = 0
    /\ gpc \in {"body", "done"} => ind - depth = IF BareProcedure THEN 1 ELSE 0
    /\ \A j \in 1..Len(buf) : buf[j].k = "nl" => buf[j].ind >= 0

C27_Witness ==
    /\ gpc = "done"
    /\ BareProcedure
    /\ ind = 0
    /\ HasTok(buf, [k |-> "end procedure"])
    /\ HasTok(buf, [k |-> "while", cond |-> <<Compare(1, NoEdge)>>])
    /\ HasTok(buf, [k |-> "nl", ind |-> 4])

=============================================================================
